---- MODULE Spec2Model ----
(***************************************************************************)
(* ASSUREDChain: the project-manifest store (project_state.py), the Web3  *)
(* wrapper (web3_client.py) and the snapshot / anchoring sections of the   *)
(* Streamlit pages, as state machines.                                     *)
(*                                                                         *)
(* Python values are tagged records [t |-> type, v |-> value], so that     *)
(* isinstance tests of the code can be written down.  A Python dict is a   *)
(* function from its keys to tagged values.                                *)
(***************************************************************************)
EXTENDS Integers, Sequences, FiniteSets, TLC

VARIABLES
    disk,      \* the manifest.json file of the project: [st, doc]
    ret,       \* the last call on the store: [op, val, raised, warned]
    sess,      \* concurrent sessions: session -> [pc, op, arg, manifest]
    tx,        \* one call of send_log_tx: its position and what it did so far
    ui,        \* a log page in a browser session: the page, the sidebar, st.session_state
    fs,        \* the files the pages write: snapshots, chainproofs, reports
    txlog      \* the calls of send_log_tx the pages made, in order

vars == <<disk, ret, sess, tx, ui, fs, txlog>>

----------------------------------------------------------------------------
(* Bounds *)

MaxEntries == 2          \* total number of list entries a run appends
MaxSlack == 2            \* digest inputs are at most this much shorter or longer than 64

----------------------------------------------------------------------------
(* Python values *)

Str(s) == [t |-> "str", v |-> s]
Num(n) == [t |-> "num", v |-> n]
Lst(q) == [t |-> "list", v |-> q]
Dct(f) == [t |-> "dict", v |-> f]
NoneVal == [t |-> "none", v |-> 0]

IsDict(x) == x.t = "dict"
IsList(x) == x.t = "list"

EmptyDict == <<>>

\* d[k] = v on a Python dict
DictSet(d, k, val) == [x \in (DOMAIN d) \cup {k} |-> IF x = k THEN val ELSE d[x]]

\* d.get(k, default)
DictGet(d, k, default) == IF k \in DOMAIN d THEN d[k] ELSE default

\* d.setdefault(k, default): the dict afterwards
SetDefault(d, k, default) == IF k \in DOMAIN d THEN d ELSE DictSet(d, k, default)

\* d.update(other)
DictUpdate(d, other) ==
    [x \in (DOMAIN d) \cup (DOMAIN other) |-> IF x \in DOMAIN other THEN other[x] ELSE d[x]]

----------------------------------------------------------------------------
(* project_state.py *)

DEFAULT_STRUCTURE ==
    [meta  |-> Dct([project_name |-> Str(""), cell_line |-> Str(""), owner |-> Str(""),
                    created_at |-> Num(0), status |-> Str("draft")]),
     files |-> Dct([snapshots |-> Lst(<<>>), reports |-> Lst(<<>>), uploads |-> Lst(<<>>)]),
     chain |-> Lst(<<>>),
     audit |-> Lst(<<>>)]

\* The manifest file: absent, present with unparseable text, or present with
\* the JSON text of a document.
NoFile == [st |-> "absent", doc |-> EmptyDict]
BadFile == [st |-> "corrupt", doc |-> EmptyDict]

\* save_manifest: path.write_text(json.dumps(manifest)); every value of the
\* model is a JSON value (str keys, strings, numbers, lists, dicts), which
\* json.dumps / json.loads reproduce, so the file holds the document.
save_manifest(manifest) == [st |-> "ok", doc |-> manifest]

\* Variant: the default is returned but not written back
LoadManifestNoSave(d, readOk) ==
    IF d.st = "ok" /\ readOk
    THEN [manifest |-> d.doc, disk |-> d, warned |-> FALSE]
    ELSE [manifest |-> DEFAULT_STRUCTURE, disk |-> d, warned |-> d.st # "absent"]

\* load_manifest: what it returns, what it leaves on disk and whether it
\* warned.  readOk = FALSE is a read_text that raises OSError.
load_manifest(d, readOk) ==
    IF d.st = "ok" /\ readOk
    THEN [manifest |-> d.doc, disk |-> d, warned |-> FALSE]
    ELSE [manifest |-> DEFAULT_STRUCTURE,
          disk |-> save_manifest(DEFAULT_STRUCTURE),
          warned |-> d.st # "absent"]

\* The document in the file (the default where there is none to parse)
DocOf0(d) == IF d.st = "ok" THEN d.doc ELSE DEFAULT_STRUCTURE

\* manifest.setdefault("audit", []).append(entry)
AppendAuditDoc(m, entry) ==
    LET m1 == SetDefault(m, "audit", Lst(<<>>))
    IN  DictSet(m1, "audit", Lst(Append(m1["audit"].v, entry)))

\* Variant: the category list is assigned instead of extended
RegisterFileDocReset(m, category, payload) ==
    LET m1 == SetDefault(m, "files", Dct(EmptyDict))
    IN  DictSet(m1, "files", Dct(DictSet(m1["files"].v, category, Lst(<<payload>>))))

\* manifest.setdefault("files", {}).setdefault(category, []).append(payload)
RegisterFileDoc(m, category, payload) ==
    LET m1 == SetDefault(m, "files", Dct(EmptyDict))
        f1 == SetDefault(m1["files"].v, category, Lst(<<>>))
    IN  DictSet(m1, "files", Dct(DictSet(f1, category, Lst(Append(f1[category].v, payload)))))

\* manifest.setdefault("chain", []).append(tx_payload)
RegisterChainTxDoc(m, tx_payload) ==
    LET m1 == SetDefault(m, "chain", Lst(<<>>))
    IN  DictSet(m1, "chain", Lst(Append(m1["chain"].v, tx_payload)))

\* Variant: dict.update, nested dicts are replaced
ShallowMerge(base, updates) == DictUpdate(base, updates)

RECURSIVE _deep_merge(_, _)
_deep_merge(base, updates) ==
    [k \in (DOMAIN base) \cup (DOMAIN updates) |->
        IF k \in DOMAIN updates
        THEN IF IsDict(updates[k]) /\ k \in DOMAIN base /\ IsDict(base[k])
             THEN Dct(_deep_merge(base[k].v, updates[k].v))
             ELSE updates[k]
        ELSE base[k]]

\* manifest["meta"] = _deep_merge(manifest.get("meta", {}), updates)
UpdateMetaDoc(m, updates) ==
    DictSet(m, "meta", Dct(_deep_merge(DictGet(m, "meta", Dct(EmptyDict)).v, updates)))

\* Variant: the project id is written beside meta, not into it
CreateProjectDocFlat(m, meta, project_id) ==
    DictSet(DictSet(m, "meta", Dct(DictUpdate(m["meta"].v, meta))), "project_id", Str(project_id))

\* manifest["meta"].update(meta or {}); manifest["meta"]["project_id"] = project_id
CreateProjectDoc(m, meta, project_id) ==
    DictSet(m, "meta", Dct(DictSet(DictUpdate(m["meta"].v, meta), "project_id", Str(project_id))))

----------------------------------------------------------------------------
(* Inputs of the store calls *)

Categories == {"snapshots", "exports"}

Payloads ==
    {Dct([step |-> Str("design"), path |-> Str("a.json")]),
     Dct([step |-> Str("delivery"), path |-> Str("b.json")])}

\* updates of update_project_meta: scalars, lists and dicts nested up to 3 deep
MetaUpdates ==
    {[owner |-> Str("alice")],
     [compliance |-> Str("none")],
     [compliance |-> Dct([gene |-> Str("TIE1")])],
     [compliance |-> Dct([site |-> Dct([city |-> Str("Berlin")])])],
     [compliance |-> Dct([site |-> Dct([zip |-> Str("13125")]), guides |-> Lst(<<Str("g1")>>)])]}

\* the updates made while reads fail and the file is edited from outside
EnvMetaUpdates ==
    {[owner |-> Str("alice")],
     [compliance |-> Dct([gene |-> Str("TIE1")])]}

\* meta of create_project: None, or the sidebar's {"created_at": int(time.time())}
CreateMetas == {EmptyDict, [created_at |-> Num(1)]}

ProjectId == "P1"

\* Number of list entries of a manifest file
RECURSIVE SumLen(_, _)
SumLen(f, keys) ==
    IF keys = {} THEN 0
    ELSE LET k == CHOOSE x \in keys : TRUE
         IN  (IF IsList(f[k]) THEN Len(f[k].v) ELSE 0) + SumLen(f, keys \ {k})

NumEntries(d) ==
    IF d.st # "ok" THEN 0
    ELSE SumLen(d.doc, (DOMAIN d.doc) \ {"meta", "files"})
         + (IF "files" \in DOMAIN d.doc
            THEN SumLen(d.doc["files"].v, DOMAIN d.doc["files"].v) ELSE 0)

Returned(op, val, warned) == [op |-> op, val |-> val, raised |-> FALSE, warned |-> warned]
Raised(op, warned) == [op |-> op, val |-> NoneVal, raised |-> TRUE, warned |-> warned]

----------------------------------------------------------------------------
(* The store calls, one at a time *)

CallLoadManifest(readOk) ==
    LET lo == load_manifest(disk, readOk)
    IN  /\ disk' = lo.disk
        /\ ret' = Returned("load_manifest", Dct(lo.manifest), lo.warned)
        /\ UNCHANGED <<sess, tx, ui, fs, txlog>>

append_audit(entry, readOk) ==
    LET lo == load_manifest(disk, readOk)
    IN  /\ NumEntries(disk) < MaxEntries
        /\ disk' = save_manifest(AppendAuditDoc(lo.manifest, entry))
        /\ ret' = Returned("append_audit", NoneVal, lo.warned)
        /\ UNCHANGED <<sess, tx, ui, fs, txlog>>

register_file(category, payload, readOk) ==
    LET lo == load_manifest(disk, readOk)
    IN  /\ NumEntries(disk) < MaxEntries
        /\ disk' = save_manifest(RegisterFileDoc(lo.manifest, category, payload))
        /\ ret' = Returned("register_file", NoneVal, lo.warned)
        /\ UNCHANGED <<sess, tx, ui, fs, txlog>>

register_chain_tx(tx_payload, readOk) ==
    LET lo == load_manifest(disk, readOk)
    IN  /\ NumEntries(disk) < MaxEntries
        /\ disk' = save_manifest(RegisterChainTxDoc(lo.manifest, tx_payload))
        /\ ret' = Returned("register_chain_tx", NoneVal, lo.warned)
        /\ UNCHANGED <<sess, tx, ui, fs, txlog>>

update_project_meta(updates, readOk) ==
    LET lo == load_manifest(disk, readOk)
        m == UpdateMetaDoc(lo.manifest, updates)
    IN  /\ disk' = save_manifest(m)
        /\ ret' = Returned("update_project_meta", m["meta"], lo.warned)
        /\ UNCHANGED <<sess, tx, ui, fs, txlog>>

\* manifest["meta"] raises KeyError on a manifest without "meta": the call
\* ends after load_manifest, before save_manifest
create_project(meta, readOk) ==
    LET lo == load_manifest(disk, readOk)
    IN  /\ IF "meta" \in DOMAIN lo.manifest
           THEN /\ disk' = save_manifest(CreateProjectDoc(lo.manifest, meta, ProjectId))
                /\ ret' = Returned("create_project", NoneVal, lo.warned)
           ELSE /\ disk' = lo.disk
                /\ ret' = Raised("create_project", lo.warned)
        /\ UNCHANGED <<sess, tx, ui, fs, txlog>>

\* The file is changed from outside the application: unparseable text, or a
\* manifest of an older layout without the top-level keys
ExternalFiles == {BadFile, save_manifest(EmptyDict)}

ExternalEdit(f) ==
    /\ NumEntries(disk) = 0
    /\ disk' = f
    /\ ret' = Returned("external", NoneVal, FALSE)
    /\ UNCHANGED <<sess, tx, ui, fs, txlog>>

\* A browser session (a Streamlit script run) between the calls of the store
NoSession ==
    [pc |-> "idle", op |-> "none", cat |-> "none", arg |-> NoneVal,
     manifest |-> EmptyDict, done |-> <<>>]
Sessions == {"s1", "s2"}

\* Optional values: None and a value that is present
None == <<>>
Some(x) == <<x>>

\* No page open, no file written by a page
NoUi ==
    [page |-> "none", selected |-> FALSE, clock |-> 0, snapshot |-> None,
     readiness |-> None, runs |-> 0, shown |-> "none"]
NoFs == [snapshots |-> <<>>, proofs |-> <<>>, reports |-> <<>>]

NoTx ==
    [pc |-> "none", hex_digest |-> <<>>, digest |-> <<>>, err |-> "none", est_raised |-> FALSE,
     gas_estimate |-> 0, gas_limit |-> 0, calls |-> <<>>, sent |-> "none", result |-> "none"]

Init ==
    /\ disk = NoFile
    /\ ret = Returned("none", NoneVal, FALSE)
    /\ sess = [s \in Sessions |-> NoSession]
    /\ tx = NoTx
    /\ ui = NoUi
    /\ fs = NoFs
    /\ txlog = <<>>

Calls(reads, metas) ==
    \/ \E readOk \in reads : CallLoadManifest(readOk)
    \/ \E e \in Payloads, readOk \in reads : append_audit(e, readOk)
    \/ \E c \in Categories, p \in Payloads, readOk \in reads : register_file(c, p, readOk)
    \/ \E p \in Payloads, readOk \in reads : register_chain_tx(p, readOk)
    \/ \E u \in metas, readOk \in reads : update_project_meta(u, readOk)
    \/ \E m \in CreateMetas, readOk \in reads : create_project(m, readOk)

\* Normal operation: every read of the manifest file succeeds
Next == Calls({TRUE}, MetaUpdates)

Spec == Init /\ [][Next]_vars

\* Operation with faults: reads may fail and the file may be edited from outside
NextEnv ==
    \/ Calls(BOOLEAN, EnvMetaUpdates)
    \/ \E f \in ExternalFiles : ExternalEdit(f)

SpecEnv == Init /\ [][NextEnv]_vars

----------------------------------------------------------------------------
(* Two sessions on one project: each call is load_manifest, then the change
   of the loaded document and save_manifest *)

\* The change a call makes to the manifest it loaded
ApplyUpdate(m, op, cat, arg) ==
    CASE op = "register_file" -> RegisterFileDoc(m, cat, arg)
      [] op = "append_audit" -> AppendAuditDoc(m, arg)
      [] op = "register_chain_tx" -> RegisterChainTxDoc(m, arg)
      [] op = "update_project_meta" -> UpdateMetaDoc(m, arg.v)

\* Variant: the document is read again when it is saved
SaveDocFresh(loaded, current, op, cat, arg) == ApplyUpdate(current, op, cat, arg)

\* The document a call saves: the one it loaded with its change; the file as
\* it is now is not looked at
SaveDoc(loaded, current, op, cat, arg) == ApplyUpdate(loaded, op, cat, arg)

Updates ==
    {[op |-> "register_file", cat |-> c, arg |-> p] : c \in {"snapshots"}, p \in Payloads}
    \cup {[op |-> o, cat |-> "none", arg |-> p] : o \in {"append_audit", "register_chain_tx"}, p \in Payloads}
    \cup {[op |-> "update_project_meta", cat |-> "none", arg |-> Dct(u)] : u \in MetaUpdates}

RECURSIVE SumDone(_, _)
SumDone(f, S) ==
    IF S = {} THEN 0
    ELSE LET x == CHOOSE y \in S : TRUE
         IN  Len(f[x].done) + (IF f[x].pc = "loaded" THEN 1 ELSE 0) + SumDone(f, S \ {x})

\* load_manifest of a call
SessionBegin(s, u) ==
    LET lo == load_manifest(disk, TRUE)
    IN  /\ sess[s].pc = "idle"
        /\ SumDone(sess, Sessions) < MaxEntries
        /\ disk' = lo.disk
        /\ sess' = [sess EXCEPT ![s] = [pc |-> "loaded", op |-> u.op, cat |-> u.cat, arg |-> u.arg,
                                        manifest |-> lo.manifest, done |-> sess[s].done]]
        /\ UNCHANGED <<ret, tx, ui, fs, txlog>>

\* the change and save_manifest of a call; the call returns
SessionFinish(s) ==
    LET c == sess[s]
    IN  /\ c.pc = "loaded"
        /\ disk' = save_manifest(SaveDoc(c.manifest, DocOf0(disk), c.op, c.cat, c.arg))
        /\ sess' = [sess EXCEPT ![s] = [pc |-> "idle", op |-> "none", cat |-> "none", arg |-> NoneVal,
                                        manifest |-> EmptyDict,
                                        done |-> Append(c.done, [op |-> c.op, cat |-> c.cat, arg |-> c.arg])]]
        /\ UNCHANGED <<ret, tx, ui, fs, txlog>>

NextConc ==
    \/ \E s \in Sessions, u \in Updates : SessionBegin(s, u)
    \/ \E s \in Sessions : SessionFinish(s)

SpecConc == Init /\ [][NextConc]_vars

----------------------------------------------------------------------------
(* web3_client.py.  A str is the sequence of its characters. *)

DigestLen == 64
FallbackGas == 200000
GasMargin == 5000

\* str.lower() on the characters the inputs are made of
LowerChar(c) ==
    CASE c = "A" -> "a" [] c = "F" -> "f" [] c = "G" -> "g" [] c = "X" -> "x" [] OTHER -> c

Lower(str) == [i \in DOMAIN str |-> LowerChar(str[i])]

\* str.removeprefix("0x")
RemovePrefix0x(str) ==
    IF Len(str) >= 2 /\ str[1] = "0" /\ str[2] = "x" THEN SubSeq(str, 3, Len(str)) ELSE str

_normalize_digest(hex_digest) ==
    LET digest == RemovePrefix0x(Lower(hex_digest))
    IN  IF Len(digest) # DigestLen
        THEN [raised |-> TRUE, val |-> <<>>]
        ELSE [raised |-> FALSE, val |-> <<"0", "x">> \o digest]

\* Variant: the margin is added to the bare estimate
GasLimitNoFactor(gas_estimate) == gas_estimate + GasMargin

\* int(gas_estimate * 1.2) + 5000; for every estimate below 2,000,000 the
\* float product truncates to the integer quotient
GasLimit(gas_estimate) == ((gas_estimate * 12) \div 10) + GasMargin

Rep(c, n) == [i \in 1..n |-> c]

Prefixes == {<<>>, <<"0", "x">>, <<"0", "X">>}
FillChars == {"a", "F", "g", "0"}

\* hex_digest arguments: an optional prefix, a run of one character and a
\* last character, the run and last character 64 long give or take MaxSlack
DigestInputs ==
    {pre \o Rep(c, n) \o <<l>> :
        pre \in Prefixes, c \in FillChars, l \in FillChars,
        n \in (DigestLen - 1 - MaxSlack)..(DigestLen - 1 + MaxSlack)}

GasEstimates == {21000, 64123}

InitTx ==
    /\ disk = NoFile
    /\ ret = Returned("none", NoneVal, FALSE)
    /\ sess = [s \in Sessions |-> NoSession]
    /\ \E h \in DigestInputs : tx = [NoTx EXCEPT !.pc = "start", !.hex_digest = h]
    /\ ui = NoUi
    /\ fs = NoFs
    /\ txlog = <<>>

\* lines 96-103: the private key, get_client, the account, the nonce (preOk:
\* none of them raises), then _normalize_digest
TxPreconditions(preOk) ==
    /\ tx.pc = "start"
    /\ IF ~preOk
       THEN tx' = [tx EXCEPT !.pc = "raised", !.err = "RuntimeError"]
       ELSE LET r == _normalize_digest(tx.hex_digest)
            IN  IF r.raised
                THEN tx' = [tx EXCEPT !.pc = "raised", !.err = "ValueError"]
                ELSE tx' = [tx EXCEPT !.pc = "estimate", !.digest = r.val]
    /\ UNCHANGED <<disk, ret, sess, ui, fs, txlog>>

\* lines 105-109: estimate_gas, 200000 when it raises
TxEstimateGas(raises, estimate) ==
    /\ tx.pc = "estimate"
    /\ LET g == IF raises THEN FallbackGas ELSE estimate
       IN  tx' = [tx EXCEPT !.pc = "build", !.gas_estimate = g, !.est_raised = raises,
                            !.gas_limit = GasLimit(g),
                            !.calls = Append(tx.calls, "estimate_gas")]
    /\ UNCHANGED <<disk, ret, sess, ui, fs, txlog>>

\* line 111: build_transaction; it returns or raises
TxBuild(raises) ==
    /\ tx.pc = "build"
    /\ tx' = [tx EXCEPT !.pc = IF raises THEN "raised" ELSE "sign",
                        !.err = IF raises THEN "build_transaction" ELSE tx.err,
                        !.calls = Append(tx.calls, "build_transaction")]
    /\ UNCHANGED <<disk, ret, sess, ui, fs, txlog>>

\* line 122: sign_transaction
TxSign(raises) ==
    /\ tx.pc = "sign"
    /\ tx' = [tx EXCEPT !.pc = IF raises THEN "raised" ELSE "send",
                        !.err = IF raises THEN "sign_transaction" ELSE tx.err,
                        !.calls = Append(tx.calls, "sign_transaction")]
    /\ UNCHANGED <<disk, ret, sess, ui, fs, txlog>>

\* line 123: send_raw_transaction; the node has the transaction when it returns
TxSendRaw(raises) ==
    /\ tx.pc = "send"
    /\ tx' = [tx EXCEPT !.pc = IF raises THEN "raised" ELSE "wait",
                        !.err = IF raises THEN "send_raw_transaction" ELSE tx.err,
                        !.sent = IF raises THEN "none" ELSE "0xT1",
                        !.calls = Append(tx.calls, "send_raw_transaction")]
    /\ UNCHANGED <<disk, ret, sess, ui, fs, txlog>>

\* lines 124-125: wait_for_transaction_receipt, then the return
TxWaitReceipt(raises) ==
    /\ tx.pc = "wait"
    /\ tx' = [tx EXCEPT !.pc = IF raises THEN "raised" ELSE "returned",
                        !.err = IF raises THEN "wait_for_transaction_receipt" ELSE tx.err,
                        !.result = IF raises THEN "none" ELSE tx.sent,
                        !.calls = Append(tx.calls, "wait_for_transaction_receipt")]
    /\ UNCHANGED <<disk, ret, sess, ui, fs, txlog>>

NextTx ==
    \/ \E preOk \in BOOLEAN : TxPreconditions(preOk)
    \/ \E raises \in BOOLEAN, g \in GasEstimates : TxEstimateGas(raises, g)
    \/ \E raises \in BOOLEAN : TxBuild(raises)
    \/ \E raises \in BOOLEAN : TxSign(raises)
    \/ \E raises \in BOOLEAN : TxSendRaw(raises)
    \/ \E raises \in BOOLEAN : TxWaitReceipt(raises)

SpecTx == InitTx /\ [][NextTx]_vars

----------------------------------------------------------------------------
(* The log pages (src/app/pages).  A behaviour follows one page of one
   browser session; each run of the page script is one action.  The pages
   keep their snapshot and readiness under session keys of their own. *)

MaxRuns == 2

Pages ==
    {"design", "delivery", "assessment", "cloning", "screening", "seed_bank",
     "master_bank_registry", "lageso_audit"}

\* the step argument a page passes to send_log_tx
StepLabel(page) ==
    CASE page = "design" -> "Design"
      [] page = "delivery" -> "Delivery"
      [] page = "assessment" -> "Assessment"
      [] page = "cloning" -> "Cloning"
      [] page = "screening" -> "Screening"
      [] page = "seed_bank" -> "Seed Bank"
      [] page = "master_bank_registry" -> "Master Bank Registry"
      [] page = "lageso_audit" -> "LAGESO Audit"

\* the page sets its readiness only inside "if selected_project:"
PagesReadinessInProject == {"design"}
\* the anchoring section evaluates the readiness when the session has none
PagesRecompute == {"seed_bank", "master_bank_registry"}
\* the anchoring section writes no chainproof file
PagesNoProof == {"master_bank_registry", "lageso_audit"}
\* send_log_tx is called outside any try
PagesUncaught == {"master_bank_registry"}
\* the page stops (st.stop) while no project is selected
PagesNeedProject == {"lageso_audit"}
\* the snapshot path is registered through normalize_path_for_storage
PagesNormalize == {"assessment", "cloning", "master_bank_registry"}
\* the report is registered only if no entry has its path and step
PagesDedupe == {"delivery", "assessment", "cloning"}
\* the save handler writes no report
PagesNoReport == {"master_bank_registry"}

\* int(time.time())
Times == {1, 2}

\* The values of a form, by what the readiness evaluators read of them:
\* the required entries that are missing and the advisory ones that are
Forms ==
    {[missing |-> <<>>, advisory |-> <<>>],
     [missing |-> <<>>, advisory |-> <<"advisory">>],
     [missing |-> <<"required">>, advisory |-> <<>>]}

DefaultProjectId == "default"

\* the bytes of a snapshot: json.dumps of the validated form with its timestamp
Payload(page, pid, form, ts) ==
    [page |-> page, project_id |-> pid, missing |-> form.missing,
     advisory |-> form.advisory, timestamp_unix |-> ts, as |-> "json"]

NoPayload ==
    [page |-> "none", project_id |-> "none", missing |-> <<>>, advisory |-> <<>>,
     timestamp_unix |-> 0, as |-> "none"]

FormOf(payload) == [missing |-> payload.missing, advisory |-> payload.advisory]

\* snapshot_to_pdf: the report rendered from the payload
PdfOf(payload) == [payload EXCEPT !.as = "pdf"]

\* sha256_bytes(...).  The digest is kept symbolic: it stands for the 64 hex
\* characters computed from these bytes, different bytes giving digests that
\* differ, also in their first 12 characters.
sha256_bytes(bytes) == [sha256 |-> bytes]

\* digest[:12]
Prefix12(digest) == [first12 |-> digest.sha256]
NoPrefix == [first12 |-> NoPayload]

\* evaluate_*_readiness: {"ready": not issues, "issues": ..., "warnings": ...}
evaluate_readiness(payload) ==
    [ready |-> payload.missing = <<>>, issues |-> payload.missing,
     warnings |-> payload.advisory]

\* manifest values that are paths, digests and transaction hashes
Pth(p) == [t |-> "path", v |-> p]
Dig(d) == [t |-> "digest", v |-> d]
Txh(h) == [t |-> "tx_hash", v |-> h]

\* A path: its directory, the parts of its name and its suffix
PathOf(dir, stem, suffix) == [rel |-> FALSE, dir |-> dir, stem |-> stem, suffix |-> suffix]

normalize_path_for_storage(path) == [path EXCEPT !.rel = TRUE]

\* Path(outfile).with_suffix(".chainproof.json")
ProofPath(outfile) == [outfile EXCEPT !.suffix = "chainproof.json"]

\* outfile.resolve().as_uri()
AsUri(path) == [t |-> "uri", v |-> path]

FallbackName(page) ==
    CASE page = "design" -> "design_logs_v2"
      [] page = "delivery" -> "delivery_logs"
      [] page = "assessment" -> "assessment_logs"
      [] page = "cloning" -> "iota_cloning_logs"
      [] page = "screening" -> "screening_logs"
      [] page = "seed_bank" -> "seed_bank_logs"
      [] page = "master_bank_registry" -> "snapshots"
      [] page = "lageso_audit" -> "lageso"

SubdirName(page) == IF page = "lageso_audit" THEN "lageso" ELSE page

\* snapshot_dir: project_subdir(selected_project, "snapshots", ...) or the fallback
SnapshotDir(page, selected) ==
    IF selected THEN <<ProjectId, "snapshots", SubdirName(page)>>
    ELSE <<"data", FallbackName(page), "">>

\* report_dir
ReportDir(page, selected) ==
    IF selected THEN <<ProjectId, "reports", SubdirName(page)>>
    ELSE IF page = "master_bank_registry" THEN <<"data", "reports", "">>
    ELSE <<"data", FallbackName(page), "">>

PlateId == "plate"
BatchId == "batch"

\* Variant: the snapshot file is named without the digest
OutfileStemNoDigest(page, selected, pid, ts, digest) == <<pid, "", ts, NoPrefix>>

\* The name of the snapshot file: project id, timestamp and digest[:12]; the
\* Cloning page writes one fixed file
OutfileStem(page, selected, pid, ts, digest) ==
    CASE page \in {"design", "delivery", "assessment"} -> <<pid, "", ts, Prefix12(digest)>>
      [] page = "screening" -> <<pid, PlateId, ts, Prefix12(digest)>>
      [] page = "seed_bank" -> <<pid, BatchId, ts, Prefix12(digest)>>
      [] page = "master_bank_registry" -> <<"master_bank_snapshot", "", ts, Prefix12(digest)>>
      [] page = "lageso_audit" -> <<ProjectId, "lageso", ts, Prefix12(digest)>>
      [] page = "cloning" ->
            <<IF selected THEN ProjectId ELSE "default", "cloning_snapshot", 0, NoPrefix>>

\* fixed_snapshot_file of the Cloning page
FixedSnapshotFile(selected) ==
    PathOf(SnapshotDir("cloning", selected),
           OutfileStem("cloning", selected, ProjectId, 0, sha256_bytes(NoPayload)), "json")

\* build_step_filename(project_id, step, timestamp); the Cloning report has
\* one fixed name
ReportStem(page, pid, ts) ==
    IF page = "cloning" THEN <<pid, "cloning_report", 0, NoPrefix>>
    ELSE <<pid, SubdirName(page), ts, NoPrefix>>

\* One call of the store by a page: load_manifest, the change, save_manifest
StoreCall(d, call) ==
    save_manifest(ApplyUpdate(load_manifest(d, TRUE).manifest, call.op, call.cat, call.arg))

RECURSIVE StoreCalls(_, _)
StoreCalls(d, calls) ==
    IF calls = <<>> THEN d ELSE StoreCalls(StoreCall(d, Head(calls)), Tail(calls))

RegisterCall(category, entry) == [op |-> "register_file", cat |-> category, arg |-> Dct(entry)]
AuditCall(entry) == [op |-> "append_audit", cat |-> "none", arg |-> Dct(entry)]
ChainCall(entry) == [op |-> "register_chain_tx", cat |-> "none", arg |-> Dct(entry)]
MetaCall(updates) == [op |-> "update_project_meta", cat |-> "none", arg |-> Dct(updates)]

\* the values of the form a page stores in the project meta
FormMeta(form) == Dct([missing |-> Lst(form.missing), advisory |-> Lst(form.advisory)])

\* update_project_meta before the snapshot is registered
MetaBefore(page, form) ==
    IF page \in {"design", "lageso_audit"} THEN <<MetaCall([compliance |-> FormMeta(form)])>>
    ELSE <<>>

\* update_project_meta at the end of the handler: the form defaults
MetaAfter(page, form) ==
    CASE page = "delivery" -> <<MetaCall([delivery_defaults |-> FormMeta(form)])>>
      [] page = "assessment" -> <<MetaCall([assessment_defaults |-> FormMeta(form)])>>
      [] page = "cloning" -> <<MetaCall([cloning_defaults |-> FormMeta(form)])>>
      [] OTHER -> <<>>

\* any(e.get("path") == pdf_path_str and e.get("step") == step for e in existing_reports)
AlreadyRegistered(d, path, step) ==
    LET m == load_manifest(d, TRUE).manifest
        files == DictGet(m, "files", Dct(EmptyDict)).v
        reports == DictGet(files, "reports", Lst(<<>>)).v
    IN  \E i \in DOMAIN reports :
            /\ IsDict(reports[i])
            /\ DictGet(reports[i].v, "path", NoneVal) = Pth(path)
            /\ DictGet(reports[i].v, "step", NoneVal) = Str(step)

\* the store calls of a save handler up to the attachment previews
SaveCallsBefore(page, form, outfile, digest, ts, now) ==
    MetaBefore(page, form)
    \o <<RegisterCall("snapshots",
            [step |-> Str(page),
             path |-> Pth(IF page \in PagesNormalize
                          THEN normalize_path_for_storage(outfile) ELSE outfile),
             digest |-> Dig(digest), timestamp |-> Num(ts)]),
         AuditCall([ts |-> Num(now), step |-> Str(page), action |-> Str("snapshot_saved"),
                    snapshot_path |-> Pth(outfile)])>>

\* the store calls of a save handler after the report was written
SaveCallsAfter(page, form, d, pdf_path, pdf_digest, ts) ==
    (IF page \in PagesNoReport \/ (page \in PagesDedupe /\ AlreadyRegistered(d, pdf_path, page))
     THEN <<>>
     ELSE <<RegisterCall("reports",
                [step |-> Str(page), path |-> Pth(pdf_path), timestamp |-> Num(ts),
                 digest |-> Dig(pdf_digest), type |-> Str("pdf")])>>)
    \o MetaAfter(page, form)

\* use_project in the sidebar: a project is selected or deselected
SelectProject ==
    /\ ui.page \in Pages
    /\ ui.runs < MaxRuns
    /\ ui' = [ui EXCEPT !.selected = ~ui.selected, !.shown = "none"]
    /\ UNCHANGED <<disk, ret, sess, tx, fs, txlog>>

\* time passes (while a handler can still run)
Tick ==
    /\ ui.page \in Pages
    /\ ui.runs < MaxRuns
    /\ ui.clock + 1 \in Times
    /\ ui' = [ui EXCEPT !.clock = ui.clock + 1]
    /\ UNCHANGED <<disk, ret, sess, tx, fs, txlog>>

\* 5_IOTA_Cloning.py save_section_data: a section of the form is written to
\* the fixed snapshot file
SaveSection(form) ==
    /\ ui.page = "cloning"
    /\ ui.runs < MaxRuns
    /\ LET pid == IF ui.selected THEN ProjectId ELSE DefaultProjectId
       IN  fs' = [fs EXCEPT !.snapshots =
                     DictSet(@, FixedSnapshotFile(ui.selected),
                             Payload("cloning", pid, form, ui.clock))]
    /\ ui' = [ui EXCEPT !.shown = "section_saved"]
    /\ UNCHANGED <<disk, ret, sess, tx, txlog>>

\* The save handler of a page ("if submitted:").  abort: an exception ends
\* the run at the attachment previews, after the snapshot was stored in the
\* session and registered.
SaveSnapshot(form, abort) ==
    LET page == ui.page
        selected == ui.selected
        now == ui.clock
        pid == IF selected THEN ProjectId ELSE DefaultProjectId
        payload == Payload(page, pid, form, now)
        digest == sha256_bytes(payload)
        outfile == PathOf(SnapshotDir(page, selected),
                          OutfileStem(page, selected, pid, now, digest), "json")
        snapshot == [digest |-> digest, outfile |-> outfile,
                     metadata_uri |-> AsUri(outfile), payload |-> payload]
        setsReadiness ==
            CASE page \in PagesReadinessInProject -> selected /\ ~abort
              [] page \in {"master_bank_registry", "lageso_audit"} -> TRUE
              [] OTHER -> ~abort
        writesReport ==
            /\ ~abort
            /\ page \notin PagesNoReport
            /\ page \in PagesReadinessInProject => selected
        pdf_path == PathOf(ReportDir(page, selected), ReportStem(page, pid, now), "pdf")
        d1 == IF selected
              THEN StoreCalls(disk, SaveCallsBefore(page, form, outfile, digest, now, now))
              ELSE disk
        d2 == IF selected /\ ~abort
              THEN StoreCalls(d1, SaveCallsAfter(page, form, d1, pdf_path,
                                                 sha256_bytes(PdfOf(payload)), now))
              ELSE d1
    IN  /\ page \in Pages
        /\ ui.runs < MaxRuns
        /\ page \in PagesNeedProject => selected
        /\ page = "master_bank_registry" => ~abort
        /\ page = "cloning" =>
              /\ FixedSnapshotFile(selected) \in DOMAIN fs.snapshots
              /\ FormOf(fs.snapshots[FixedSnapshotFile(selected)]) = form
        /\ fs' = [fs EXCEPT !.snapshots = DictSet(@, outfile, payload),
                            !.reports = IF writesReport
                                        THEN DictSet(@, pdf_path, PdfOf(payload)) ELSE @]
        /\ ui' = [ui EXCEPT !.snapshot = Some(snapshot),
                            !.readiness = IF setsReadiness
                                          THEN Some(evaluate_readiness(payload)) ELSE @,
                            !.runs = @ + 1,
                            !.shown = IF abort THEN "exception" ELSE "saved"]
        /\ disk' = d2
        /\ UNCHANGED <<ret, sess, tx, txlog>>

\* Variant: the button is disabled only while there is no readiness result
AnchorDisabledNoResult(readiness_state) == readiness_state = None

\* anchor_disabled = not readiness_state or not readiness_state["ready"]
AnchorDisabled(readiness_state) ==
    readiness_state = None \/ ~readiness_state[1].ready

\* A rerun of the page with no button pressed: the anchoring section of the
\* Seed Bank and Master Bank pages evaluates the readiness of the snapshot
\* held in the session when the session has none, and stores it.  On the
\* other pages a rerun changes nothing.
Rerun ==
    /\ ui.page \in PagesRecompute
    /\ ui.snapshot # None
    /\ ui.readiness = None
    /\ ui' = [ui EXCEPT !.readiness = Some(evaluate_readiness(ui.snapshot[1].payload)),
                        !.shown = "none"]
    /\ UNCHANGED <<disk, ret, sess, tx, fs, txlog>>

\* The anchor button of a page was pressed: it was rendered enabled by the
\* run before.  raises: send_log_tx raises instead of returning.
Anchor(raises) ==
    LET page == ui.page
        snapshot_state == ui.snapshot[1]
        tx_hash == Len(txlog) + 1
        call == [page |-> page, step |-> StepLabel(page),
                 hex_digest |-> snapshot_state.digest,
                 metadata_uri |-> snapshot_state.metadata_uri,
                 returned |-> ~raises, tx_hash |-> IF raises THEN 0 ELSE tx_hash]
        chainproof == [tx_hash |-> tx_hash, contract |-> "CONTRACT_ADDRESS",
                       chain_id |-> 11155111, step |-> StepLabel(page),
                       content_hash |-> snapshot_state.digest]
        registers == ui.selected \/ page \in PagesNeedProject
        calls == <<ChainCall([step |-> Str(page), tx_hash |-> Txh(tx_hash),
                              digest |-> Dig(snapshot_state.digest),
                              timestamp |-> Num(ui.clock),
                              metadata_uri |-> snapshot_state.metadata_uri]),
                   AuditCall([ts |-> Num(ui.clock), step |-> Str(page),
                              action |-> Str("anchored"), tx_hash |-> Txh(tx_hash)])>>
    IN  /\ page \in Pages
        /\ ui.runs < MaxRuns
        /\ page \in PagesNeedProject => ui.selected
        /\ ui.snapshot # None
        /\ ~AnchorDisabled(ui.readiness)
        /\ txlog' = Append(txlog, call)
        /\ IF raises
           THEN /\ ui' = [ui EXCEPT !.runs = @ + 1,
                                    !.shown = IF page \in PagesUncaught
                                              THEN "exception" ELSE "anchoring_failed"]
                /\ UNCHANGED <<disk, fs>>
           ELSE /\ ui' = [ui EXCEPT !.runs = @ + 1, !.shown = "anchored"]
                /\ fs' = [fs EXCEPT !.proofs =
                             IF page \in PagesNoProof THEN @
                             ELSE DictSet(@, ProofPath(snapshot_state.outfile), chainproof)]
                /\ disk' = IF registers THEN StoreCalls(disk, calls) ELSE disk
        /\ UNCHANGED <<ret, sess, tx>>

\* A page is open in a session; the project exists (create_project)
InitPages ==
    /\ disk = save_manifest(CreateProjectDoc(DEFAULT_STRUCTURE, EmptyDict, ProjectId))
    /\ ret = Returned("none", NoneVal, FALSE)
    /\ sess = [s \in Sessions |-> NoSession]
    /\ tx = NoTx
    /\ \E page \in Pages, selected \in BOOLEAN :
          ui = [NoUi EXCEPT !.page = page, !.selected = selected, !.clock = 1]
    /\ fs = NoFs
    /\ txlog = <<>>

NextPages ==
    \/ SelectProject
    \/ Tick
    \/ \E form \in Forms : SaveSection(form)
    \/ \E form \in Forms, abort \in BOOLEAN : SaveSnapshot(form, abort)
    \/ Rerun
    \/ \E raises \in BOOLEAN : Anchor(raises)

SpecPages == InitPages /\ [][NextPages]_vars

----------------------------------------------------------------------------
(* The ASSURED binder: scripts/regenerate_binder.py and the binder section
   of pages/0_Project_Dashboard.py *)

MaxReports == 3

ASSURED_STEP_ORDER ==
    <<"charter", "design", "delivery", "assessment", "cloning", "seed_bank",
      "master_bank_registry">>

InStepOrder(step) == \E i \in DOMAIN ASSURED_STEP_ORDER : ASSURED_STEP_ORDER[i] = step

\* bool(x) of a manifest value
Truthy(x) ==
    CASE x.t = "none" -> FALSE
      [] x.t = "str" -> x.v # ""
      [] x.t = "num" -> x.v # 0
      [] OTHER -> TRUE

\* manifest.get("files", {}).get("reports", [])
ReportsOf(m) ==
    DictGet(DictGet(m, "files", Dct(EmptyDict)).v, "reports", Lst(<<>>)).v

\* entry.get("step") or "misc"
StepOf(e) ==
    LET s == DictGet(e.v, "step", NoneVal) IN IF Truthy(s) THEN s.v ELSE "misc"

\* entry.get("timestamp", 0)
TimestampOf(e) == DictGet(e.v, "timestamp", Num(0)).v

\* the entries ordered_pdf_entries keeps: dicts whose type is absent, empty or "pdf"
IsPdfEntry(e) ==
    /\ IsDict(e)
    /\ LET ty == DictGet(e.v, "type", NoneVal) IN ~(Truthy(ty) /\ ty # Str("pdf"))

\* list.sort(key=timestamp): stable, ascending
RECURSIVE InsertByTs(_, _)
InsertByTs(sorted, e) ==
    IF sorted = <<>> THEN <<e>>
    ELSE IF TimestampOf(sorted[Len(sorted)]) <= TimestampOf(e) THEN Append(sorted, e)
    ELSE Append(InsertByTs(SubSeq(sorted, 1, Len(sorted) - 1), e), sorted[Len(sorted)])

RECURSIVE SortByTs(_)
SortByTs(q) ==
    IF q = <<>> THEN <<>> ELSE InsertByTs(SortByTs(SubSeq(q, 1, Len(q) - 1)), q[Len(q)])

\* the keys of grouped, in the order a dict keeps them: first appearance
RECURSIVE GroupKeys(_)
GroupKeys(q) ==
    IF q = <<>> THEN <<>>
    ELSE LET before == GroupKeys(SubSeq(q, 1, Len(q) - 1))
             s == StepOf(q[Len(q)])
         IN  IF \E i \in DOMAIN before : before[i] = s THEN before ELSE Append(before, s)

Group(q, step) == SelectSeq(q, LAMBDA e : StepOf(e) = step)

RECURSIVE ConcatGroups(_, _, _)
ConcatGroups(q, steps, sorted) ==
    IF steps = <<>> THEN <<>>
    ELSE (IF sorted THEN SortByTs(Group(q, Head(steps))) ELSE Group(q, Head(steps)))
         \o ConcatGroups(q, Tail(steps), sorted)

\* ordered_pdf_entries / _ordered_pdf_entries
ordered_pdf_entries(manifest) ==
    LET kept == SelectSeq(ReportsOf(manifest), IsPdfEntry)
        others == SelectSeq(GroupKeys(kept), LAMBDA s : ~InStepOrder(s))
    IN  ConcatGroups(kept, ASSURED_STEP_ORDER, TRUE)
        \o SortByTs(ConcatGroups(kept, others, TRUE))

\* Path(path_str).exists(); _resolve_pdf_path also tries ROOT / path_str
PathExists(files, p) == p \in DOMAIN files.reports \/ [p EXCEPT !.rel = FALSE] \in DOMAIN files.reports
ResolvePath(p) == [p EXCEPT !.rel = FALSE]

\* Variant: the first entry of a step is kept, later ones never replace it
LatestStepFirstKept(latest, e) ==
    IF \E i \in DOMAIN latest : latest[i].step = StepOf(e) THEN latest
    ELSE Append(latest, [step |-> StepOf(e), path |-> ResolvePath(e.v.path.v),
                         timestamp |-> TimestampOf(e)])

\* one round of the loop over latest_per_step: the dict afterwards, as the
\* list of its values in insertion order
LatestStep(latest, e) ==
    LET item == [step |-> StepOf(e), path |-> ResolvePath(e.v.path.v),
                 timestamp |-> TimestampOf(e)]
    IN  IF \E i \in DOMAIN latest : latest[i].step = item.step
        THEN [i \in DOMAIN latest |->
                 IF latest[i].step = item.step /\ item.timestamp > latest[i].timestamp
                 THEN item ELSE latest[i]]
        ELSE Append(latest, item)

RECURSIVE LatestPerStep(_, _)
LatestPerStep(entries, files) ==
    IF entries = <<>> THEN <<>>
    ELSE LET before == LatestPerStep(SubSeq(entries, 1, Len(entries) - 1), files)
             e == entries[Len(entries)]
         IN  IF DictGet(e.v, "step", NoneVal) = Str("assured_binder") THEN before
             ELSE IF ~PathExists(files, e.v.path.v) THEN before
             ELSE LatestStep(before, e)

\* Variant: the candidates in the order the manifest lists their steps
BinderCandidatesAsRegistered(manifest, files) ==
    LatestPerStep(SelectSeq(ReportsOf(manifest), IsPdfEntry), files)

\* the candidates in merge order: the steps of ASSURED_STEP_ORDER, then the
\* other steps as latest_per_step holds them
BinderCandidates(manifest, files) ==
    LET latest == LatestPerStep(ordered_pdf_entries(manifest), files)
        OfStep(s) == SelectSeq(latest, LAMBDA x : x.step = s)
        InOrder[i \in 0..Len(ASSURED_STEP_ORDER)] ==
            IF i = 0 THEN <<>> ELSE InOrder[i - 1] \o OfStep(ASSURED_STEP_ORDER[i])
    IN  InOrder[Len(ASSURED_STEP_ORDER)] \o SelectSeq(latest, LAMBDA x : ~InStepOrder(x.step))

\* PdfReader(fh) does not raise
IsValidPdf(files, p) == p \in DOMAIN files.reports /\ files.reports[p].as = "pdf"

ValidPaths(candidates, files) ==
    LET valid == SelectSeq(candidates, LAMBDA x : IsValidPdf(files, x.path))
    IN  [i \in DOMAIN valid |-> valid[i].path]

SkippedPaths(candidates, files) ==
    LET bad == SelectSeq(candidates, LAMBDA x : ~IsValidPdf(files, x.path))
    IN  [i \in DOMAIN bad |-> bad[i].path]

\* a report file and the file merge_pdfs writes: the pages of its inputs in order
ReportFile(kind) == [as |-> kind, merged |-> <<>>]
MergedFile(paths) == [as |-> "pdf", merged |-> paths]

BinderPath(ts) ==
    PathOf(<<ProjectId, "reports", "binders">>, <<ProjectId, "assured-binder", ts, NoPrefix>>, "pdf")

BinderPayload(ts, valid, skipped) ==
    [step |-> Str("assured_binder"), path |-> Pth(BinderPath(ts)), timestamp |-> Num(ts),
     digest |-> Dig(sha256_bytes(MergedFile(valid))), type |-> Str("pdf"),
     skipped |-> Lst(skipped), included_count |-> Num(Len(valid))]

BinderSteps == {"design", "delivery", "screening"}

StepReportPath(step, ts) == PathOf(ReportDir(step, TRUE), ReportStem(step, ProjectId, ts), "pdf")
FinalReportPath(ts, suffix) ==
    PathOf(<<ProjectId, IF suffix = "json" THEN "snapshots" ELSE "reports", "final_reports">>,
           <<"CoA", "", ts, NoPrefix>>, suffix)

\* the report files the pages write
ReportPaths ==
    {StepReportPath(step, ts) : step \in BinderSteps, ts \in Times}
    \cup {FinalReportPath(ts, suffix) : ts \in Times, suffix \in {"docx", "pdf"}}

\* every file of the reports is there and parses
NoFileFault ==
    /\ \A p \in DOMAIN fs.reports : fs.reports[p].as # "corrupt"
    /\ \A i \in DOMAIN ReportsOf(DocOf0(disk)) :
          ReportsOf(DocOf0(disk))[i].v.path.v \in DOMAIN fs.reports

\* A page writes the PDF of its step and registers it (register_file with
\* step, path, timestamp, digest, type)
RegisterStepReport(step, ts) ==
    LET path == StepReportPath(step, ts)
    IN  /\ ui.page = "dashboard"
        /\ Len(ReportsOf(DocOf0(disk))) < MaxReports
        /\ fs' = [fs EXCEPT !.reports = DictSet(@, path, ReportFile("pdf"))]
        /\ disk' = StoreCall(disk, RegisterCall("reports",
                        [step |-> Str(step), path |-> Pth(path), timestamp |-> Num(ts),
                         digest |-> Dig(sha256_bytes(ReportFile("pdf"))), type |-> Str("pdf")]))
        /\ ret' = Returned("register_file", NoneVal, FALSE)
        /\ UNCHANGED <<sess, tx, ui, txlog>>

\* 14_Final_Reports.py _register_outputs: a DOCX report, its snapshot and its
\* PDF are registered with label and format, without step and type
RegisterFinalReport(ts) ==
    LET docx == FinalReportPath(ts, "docx")
        pdf == FinalReportPath(ts, "pdf")
        json == FinalReportPath(ts, "json")
    IN  /\ ui.page = "dashboard"
        /\ Len(ReportsOf(DocOf0(disk))) + 2 <= MaxReports
        /\ fs' = [fs EXCEPT !.reports =
                     DictSet(DictSet(@, docx, ReportFile("docx")), pdf, ReportFile("pdf"))]
        /\ disk' = StoreCalls(disk,
              <<RegisterCall("reports",
                    [label |-> Str("CoA"), path |-> Pth(docx), timestamp |-> Num(ts),
                     sha256 |-> Dig(sha256_bytes(ReportFile("docx"))), format |-> Str("docx")]),
                RegisterCall("snapshots",
                    [label |-> Str("CoA"), path |-> Pth(json), timestamp |-> Num(ts),
                     sha256 |-> Dig(sha256_bytes(ReportFile("json")))]),
                RegisterCall("reports",
                    [label |-> Str("CoA"), path |-> Pth(pdf), timestamp |-> Num(ts),
                     sha256 |-> Dig(sha256_bytes(ReportFile("pdf"))), format |-> Str("pdf")]),
                AuditCall([timestamp |-> Num(ts), event |-> Str("coa_generated"),
                           file |-> Pth(docx)])>>)
        /\ ret' = Returned("register_file", NoneVal, FALSE)
        /\ UNCHANGED <<sess, tx, ui, txlog>>

\* a report file is removed from the disk
FileLost(p) ==
    /\ ui.page = "dashboard"
    /\ NoFileFault
    /\ p \in DOMAIN fs.reports
    /\ fs' = [fs EXCEPT !.reports = [x \in (DOMAIN @) \ {p} |-> @[x]]]
    /\ ret' = Returned("external", NoneVal, FALSE)
    /\ UNCHANGED <<disk, sess, tx, ui, txlog>>

\* a report file is truncated: PdfReader will raise on it
FileTruncated(p) ==
    /\ ui.page = "dashboard"
    /\ NoFileFault
    /\ p \in DOMAIN fs.reports
    /\ fs' = [fs EXCEPT !.reports = DictSet(@, p, ReportFile("corrupt"))]
    /\ ret' = Returned("external", NoneVal, FALSE)
    /\ UNCHANGED <<disk, sess, tx, ui, txlog>>

\* regenerate_binder.py build_binder(project_id)
build_binder ==
    LET ts == ui.clock
        manifest == load_manifest(disk, TRUE).manifest
        candidates == BinderCandidates(manifest, fs)
        valid == ValidPaths(candidates, fs)
        skipped == SkippedPaths(candidates, fs)
    IN  /\ ui.page = "dashboard"
        /\ Len(ReportsOf(DocOf0(disk))) <= MaxReports
        /\ IF candidates = <<>>
           THEN /\ ret' = Returned("build_binder", Str("no-candidates"), FALSE)
                /\ UNCHANGED <<disk, fs>>
           ELSE IF valid = <<>>
           THEN /\ ret' = Returned("build_binder", Str("none-valid"), FALSE)
                /\ UNCHANGED <<disk, fs>>
           ELSE /\ fs' = [fs EXCEPT !.reports = DictSet(@, BinderPath(ts), MergedFile(valid))]
                /\ disk' = StoreCall(disk, RegisterCall("reports", BinderPayload(ts, valid, skipped)))
                /\ ret' = Returned("build_binder", Str("ok"), FALSE)
        /\ UNCHANGED <<sess, tx, ui, txlog>>

\* 0_Project_Dashboard.py: "Generate merged ASSURED binder" pressed; the
\* button is disabled without candidates
DashboardBinder ==
    LET ts == ui.clock
        manifest == load_manifest(disk, TRUE).manifest
        candidates == BinderCandidates(manifest, fs)
        valid == ValidPaths(candidates, fs)
        skipped == SkippedPaths(candidates, fs)
    IN  /\ ui.page = "dashboard"
        /\ Len(ReportsOf(DocOf0(disk))) <= MaxReports
        /\ candidates # <<>>
        /\ IF valid = <<>>
           THEN /\ ui' = [ui EXCEPT !.shown = "no_valid_pdf"]
                /\ UNCHANGED <<disk, fs>>
           ELSE /\ fs' = [fs EXCEPT !.reports = DictSet(@, BinderPath(ts), MergedFile(valid))]
                /\ disk' = StoreCall(disk, RegisterCall("reports", BinderPayload(ts, valid, skipped)))
                /\ ui' = [ui EXCEPT !.shown = "binder_created"]
        /\ ret' = Returned("dashboard_binder", NoneVal, FALSE)
        /\ UNCHANGED <<sess, tx, txlog>>

InitBinder ==
    /\ disk = save_manifest(CreateProjectDoc(DEFAULT_STRUCTURE, EmptyDict, ProjectId))
    /\ ret = Returned("none", NoneVal, FALSE)
    /\ sess = [s \in Sessions |-> NoSession]
    /\ tx = NoTx
    /\ ui = [NoUi EXCEPT !.page = "dashboard", !.selected = TRUE, !.clock = 2]
    /\ fs = NoFs
    /\ txlog = <<>>

NextBinder ==
    \/ \E step \in BinderSteps, ts \in Times : RegisterStepReport(step, ts)
    \/ \E ts \in Times : RegisterFinalReport(ts)
    \/ \E p \in ReportPaths : FileLost(p)
    \/ \E p \in ReportPaths : FileTruncated(p)
    \/ build_binder
    \/ DashboardBinder

SpecBinder == InitBinder /\ [][NextBinder]_vars

----------------------------------------------------------------------------
(* scripts/repair_manifests.py *)

\* the keys of STEP_PATTERNS in their order
STEP_PATTERNS ==
    <<"charter", "design", "delivery", "assessment", "cloning", "seed_bank",
      "master_bank_registry", "screening", "form_z">>

\* str(pdf_path).lower() on the names the paths are made of
LowerName(name) ==
    CASE name = "CoA" -> "coa" [] name = "P1" -> "p1" [] OTHER -> name

\* re.search(pattern, path_str): among the names the paths are made of, the
\* pattern of a step is found in the name of that step
PatternFound(step, path) ==
    \/ \E i \in DOMAIN path.dir : LowerName(path.dir[i]) = step
    \/ LowerName(path.stem[1]) = step
    \/ LowerName(path.stem[2]) = step

\* detect_step_from_path
detect_step_from_path(path) ==
    IF \E i \in DOMAIN STEP_PATTERNS : PatternFound(STEP_PATTERNS[i], path)
    THEN LET first == CHOOSE i \in DOMAIN STEP_PATTERNS :
                          /\ PatternFound(STEP_PATTERNS[i], path)
                          /\ \A j \in 1..(i - 1) : ~PatternFound(STEP_PATTERNS[j], path)
         IN  STEP_PATTERNS[first]
    ELSE "misc"

\* extract_timestamp_from_filename, and st_mtime when it returns 0
extract_timestamp_from_filename(path, mtime) ==
    IF path.stem[3] # 0 THEN path.stem[3] ELSE mtime

\* reports_dir.rglob("*.pdf")
PdfsUnderReports(files) ==
    {p \in DOMAIN files.reports :
        p.dir[1] = ProjectId /\ p.dir[2] = "reports" /\ p.suffix = "pdf"}

\* registered_paths: the resolved paths of the entries with type "pdf"
RegisteredPaths(manifest) ==
    LET reports == ReportsOf(manifest)
    IN  {ResolvePath(DictGet(reports[i].v, "path", Pth(PathOf(<<>>, <<>>, ""))).v) :
            i \in {k \in DOMAIN reports :
                      IsDict(reports[k]) /\ DictGet(reports[k].v, "type", NoneVal) = Str("pdf")}}

\* the entry find_orphaned_pdfs builds for a file
OrphanEntry(files, p, mtime) ==
    Dct([step |-> Str(detect_step_from_path(p)), path |-> Pth(p),
         timestamp |-> Num(extract_timestamp_from_filename(p, mtime)),
         digest |-> Dig(sha256_bytes(files.reports[p])), type |-> Str("pdf")])

\* find_orphaned_pdfs: the files of its result
find_orphaned_pdfs(manifest, files) ==
    PdfsUnderReports(files) \ RegisteredPaths(manifest)

\* the orders in which rglob can yield the files
Orderings(S) ==
    {q \in [1..Cardinality(S) -> S] : \A i, j \in 1..Cardinality(S) : q[i] = q[j] => i = j}

RECURSIVE AppendOrphans(_, _, _, _)
AppendOrphans(manifest, files, order, mtime) ==
    IF order = <<>> THEN manifest
    ELSE AppendOrphans(RegisterFileDoc(manifest, "reports", OrphanEntry(files, Head(order), mtime)),
                       files, Tail(order), mtime)

\* the "files" of the result
ResultFiles(order) ==
    [i \in DOMAIN order |-> [step |-> detect_step_from_path(order[i]), path |-> order[i]]]

RepairResult(status, order) ==
    [t |-> "result", v |-> [status |-> status, added |-> Len(order), files |-> ResultFiles(order)]]

\* a PDF lies under the reports directory of the project without an entry
WriteOrphan(step, ts) ==
    /\ Cardinality(DOMAIN fs.reports) < MaxReports
    /\ StepReportPath(step, ts) \notin DOMAIN fs.reports
    /\ fs' = [fs EXCEPT !.reports = DictSet(@, StepReportPath(step, ts), ReportFile("pdf"))]
    /\ ret' = Returned("external", NoneVal, FALSE)
    /\ UNCHANGED <<disk, sess, tx, ui, txlog>>

\* repair_manifest(project_id, dry_run); order: the order in which rglob
\* yields the files
repair_manifest(dry_run) ==
    LET found == load_manifest(disk, TRUE)
        op == IF dry_run THEN "repair_manifest_dry_run" ELSE "repair_manifest"
    IN  \E order \in Orderings(find_orphaned_pdfs(found.manifest, fs)) :
            /\ IF order = <<>>
               THEN /\ disk' = found.disk
                    /\ ret' = Returned(op, RepairResult("clean", order), found.warned)
               ELSE IF dry_run
               THEN /\ disk' = found.disk
                    /\ ret' = Returned(op, RepairResult("dry-run", order), found.warned)
               ELSE /\ disk' = save_manifest(AppendOrphans(load_manifest(found.disk, TRUE).manifest,
                                                           fs, order, ui.clock))
                    /\ ret' = Returned(op, RepairResult("repaired", order), found.warned)
            /\ UNCHANGED <<sess, tx, ui, fs, txlog>>

\* list_projects(): the directory of a project is made together with its
\* manifest (ensure_dirs in manifest_path)
list_projects(d) == IF d = NoFile THEN <<>> ELSE <<ProjectId>>

\* the steps whose reports lie in the project
RepairSteps == {"design", "screening"}

\* The project was created, or nothing of it is on the disk, or its manifest
\* does not parse
InitRepair ==
    /\ disk \in {save_manifest(CreateProjectDoc(DEFAULT_STRUCTURE, EmptyDict, ProjectId)),
                 NoFile, BadFile}
    /\ ret = Returned("none", NoneVal, FALSE)
    /\ sess = [s \in Sessions |-> NoSession]
    /\ tx = NoTx
    /\ ui = [NoUi EXCEPT !.page = "dashboard", !.selected = TRUE, !.clock = 2]
    /\ fs = NoFs
    /\ txlog = <<>>

NextRepair ==
    \/ \E ts \in Times : RegisterStepReport("design", ts)
    \/ \E ts \in Times : RegisterFinalReport(ts)
    \/ \E step \in RepairSteps, ts \in Times : WriteOrphan(step, ts)
    \/ \E dry_run \in BOOLEAN : repair_manifest(dry_run)

SpecRepair == InitRepair /\ [][NextRepair]_vars

----------------------------------------------------------------------------
(* components/pdf_utils.py and the pages that look for the entry of their
   report before they register it *)

Bool(b) == [t |-> "bool", v |-> b]

\* Variant: the entry is looked for under the path relative to the repository
AlreadyRegisteredPdfNormalized(manifest, path, step) ==
    \E i \in DOMAIN ReportsOf(manifest) :
        LET e == ReportsOf(manifest)[i]
        IN  /\ IsDict(e)
            /\ DictGet(e.v, "path", NoneVal) = Pth(normalize_path_for_storage(path))
            /\ DictGet(e.v, "step", NoneVal) = Str(step)
            /\ DictGet(e.v, "type", NoneVal) = Str("pdf")

\* already_registered of ensure_pdf_registered: path, step and type "pdf"
AlreadyRegisteredPdf(manifest, path, step) ==
    \E i \in DOMAIN ReportsOf(manifest) :
        LET e == ReportsOf(manifest)[i]
        IN  /\ IsDict(e)
            /\ DictGet(e.v, "path", NoneVal) = Pth(path)
            /\ DictGet(e.v, "step", NoneVal) = Str(step)
            /\ DictGet(e.v, "type", NoneVal) = Str("pdf")

\* the report paths of the pages, in a project
PageReportPaths ==
    {PathOf(ReportDir(page, TRUE), ReportStem(page, ProjectId, ts), "pdf") :
        page \in PagesDedupe, ts \in Times}

\* ensure_pdf_registered(project_id, step, pdf_path, timestamp)
ensure_pdf_registered(step, pdf_path, timestamp) ==
    LET manifest == load_manifest(disk, TRUE).manifest
    IN  /\ ui.page \in PagesDedupe
        /\ Len(ReportsOf(DocOf0(disk))) <= MaxReports
        /\ IF pdf_path \notin DOMAIN fs.reports
           THEN /\ ret' = Returned("ensure_pdf_registered", Bool(FALSE), FALSE)
                /\ UNCHANGED disk
           ELSE IF AlreadyRegisteredPdf(manifest, pdf_path, step)
           THEN /\ ret' = Returned("ensure_pdf_registered", Bool(FALSE), FALSE)
                /\ disk' = load_manifest(disk, TRUE).disk
           ELSE /\ ret' = Returned("ensure_pdf_registered", Bool(TRUE), FALSE)
                /\ disk' = StoreCall(disk, RegisterCall("reports",
                               [step |-> Str(step), path |-> Pth(pdf_path),
                                timestamp |-> Num(timestamp),
                                digest |-> Dig(sha256_bytes(fs.reports[pdf_path])),
                                type |-> Str("pdf")]))
        /\ UNCHANGED <<sess, tx, ui, fs, txlog>>

\* a report file of the page is removed from the disk
ReportLost(p) ==
    /\ ui.page \in PagesDedupe
    /\ p \in DOMAIN fs.reports
    /\ fs' = [fs EXCEPT !.reports = [x \in (DOMAIN @) \ {p} |-> @[x]]]
    /\ UNCHANGED <<disk, ret, sess, tx, ui, txlog>>

\* One of the three pages is open with the project selected
InitRegister ==
    /\ disk = save_manifest(CreateProjectDoc(DEFAULT_STRUCTURE, EmptyDict, ProjectId))
    /\ ret = Returned("none", NoneVal, FALSE)
    /\ sess = [s \in Sessions |-> NoSession]
    /\ tx = NoTx
    /\ \E page \in PagesDedupe : ui = [NoUi EXCEPT !.page = page, !.selected = TRUE, !.clock = 1]
    /\ fs = NoFs
    /\ txlog = <<>>

NextRegister ==
    \/ Tick
    \/ \E form \in Forms : SaveSection(form)
    \/ \E form \in Forms, abort \in BOOLEAN : SaveSnapshot(form, abort)
    \/ \E ts \in Times :
          ensure_pdf_registered(ui.page,
              PathOf(ReportDir(ui.page, TRUE), ReportStem(ui.page, ProjectId, ts), "pdf"),
              ui.clock)
    \/ \E p \in PageReportPaths : ReportLost(p)

SpecRegister == InitRegister /\ [][NextRegister]_vars

----------------------------------------------------------------------------
(* pages/9_Editing_Verification_MB_Report.py.  The page keeps nothing in the
   session: what a run rendered is held in ui.snapshot until the next run. *)

EditVerPage == "editing_verification"

\* the "Project ID" field of the form
EditVerProjectIds == {"SORCS1_KI_v1", ProjectId}

\* build_report(payload, report_path, ...): the DOCX made from the payload
DocxOf(payload) == [payload EXCEPT !.as = "docx"]

EditVerSnapshotPath(ts) ==
    PathOf(<<"data", "reports", "">>, <<"editver_mb_snapshot", "", ts, NoPrefix>>, "json")

EditVerReportPath(ts) ==
    PathOf(<<"data", "reports", "">>, <<"EditingVerification_MB_Report", "", ts, NoPrefix>>, "docx")

\* the arguments of send_log_tx in the anchoring branch
EditVerCall(rendered, returned, tx_hash) ==
    [page |-> EditVerPage, step |-> "Editing Verification (MB) Report",
     hex_digest |-> rendered.digest, metadata_uri |-> rendered.metadata_uri,
     returned |-> returned, tx_hash |-> tx_hash]

\* a run of the script against the widget states: submitted is True in the
\* run the form button started, anchor is the value st.button would return
EditVerRun(submitted, anchor, form, pid, raises) ==
    LET ts == ui.clock
        payload == Payload(EditVerPage, pid, form, ts)
        report_path == EditVerReportPath(ts)
        digest == sha256_bytes(DocxOf(payload))
        rendered == [digest |-> digest, outfile |-> report_path,
                     metadata_uri |-> AsUri(report_path), payload |-> payload]
    IN  IF submitted
        THEN /\ fs' = [fs EXCEPT !.snapshots = DictSet(@, EditVerSnapshotPath(ts), payload),
                                 !.reports = DictSet(@, report_path, DocxOf(payload))]
             /\ IF anchor
                THEN /\ txlog' = Append(txlog, EditVerCall(rendered, ~raises, Len(txlog) + 1))
                     /\ ui' = [ui EXCEPT !.snapshot = Some(rendered),
                                         !.shown = IF raises THEN "exception" ELSE "anchored"]
                ELSE /\ txlog' = txlog
                     /\ ui' = [ui EXCEPT !.snapshot = Some(rendered),
                                         !.shown = "report_generated"]
        ELSE /\ ui' = [ui EXCEPT !.snapshot = None, !.shown = "form"]
             /\ UNCHANGED <<fs, txlog>>

\* "Generate report" pressed: the run has submitted = True, and the button
\* below it, not pressed, returns False
GenerateReport(form, pid) ==
    /\ ui.page = EditVerPage
    /\ EditVerRun(TRUE, FALSE, form, pid, FALSE)
    /\ ret' = Returned("click_generate_report", NoneVal, FALSE)
    /\ UNCHANGED <<disk, sess, tx>>

\* "Anchor report on-chain (Sepolia)" pressed; the run before rendered it.
\* The click starts a run in which the form button returns False.
ClickAnchorReport(form, pid, raises) ==
    /\ ui.page = EditVerPage
    /\ ui.snapshot # None
    /\ EditVerRun(FALSE, TRUE, form, pid, raises)
    /\ ret' = Returned("click_anchor_report", NoneVal, FALSE)
    /\ UNCHANGED <<disk, sess, tx>>

\* the download button pressed; the run before rendered it
ClickDownload(form, pid) ==
    /\ ui.page = EditVerPage
    /\ ui.snapshot # None
    /\ EditVerRun(FALSE, FALSE, form, pid, FALSE)
    /\ ret' = Returned("click_download", NoneVal, FALSE)
    /\ UNCHANGED <<disk, sess, tx>>

\* time passes
EditVerTick ==
    /\ ui.page = EditVerPage
    /\ ui.clock + 1 \in Times
    /\ ui' = [ui EXCEPT !.clock = ui.clock + 1]
    /\ UNCHANGED <<disk, ret, sess, tx, fs, txlog>>

InitEditVer ==
    /\ disk = NoFile
    /\ ret = Returned("none", NoneVal, FALSE)
    /\ sess = [s \in Sessions |-> NoSession]
    /\ tx = NoTx
    /\ ui = [NoUi EXCEPT !.page = EditVerPage, !.clock = 1, !.shown = "form"]
    /\ fs = NoFs
    /\ txlog = <<>>

NextEditVer ==
    \/ \E form \in Forms, pid \in EditVerProjectIds : GenerateReport(form, pid)
    \/ \E form \in Forms, pid \in EditVerProjectIds, raises \in BOOLEAN :
          ClickAnchorReport(form, pid, raises)
    \/ \E form \in Forms, pid \in EditVerProjectIds : ClickDownload(form, pid)
    \/ EditVerTick

SpecEditVer == InitEditVer /\ [][NextEditVer]_vars

----------------------------------------------------------------------------
(* pages/7_Master_Bank_Registry.py: "Save changes".  The registry CSV and
   the consolidated Excel file are held in fs.reports under their paths; a
   row is the content of its columns, "" when all of them are empty. *)

MAX_BANKS == 2
EntryValues == {"", "bank A", "bank B"}
OtherProjectId == "P2"

REG_PATH == PathOf(<<"data", "", "">>, <<"master_bank_registry", "", 0, NoPrefix>>, "csv")
MASTER_EXCEL_PATH ==
    PathOf(<<"data", "", "">>, <<"master_bank_registry_all_projects", "", 0, NoPrefix>>, "xlsx")

TableFile(kind, rows) == [as |-> kind, rows |-> rows]

\* the rows of a table file, none when it does not exist
RowsOf(files, path) == IF path \in DOMAIN files.reports THEN files.reports[path].rows ELSE <<>>

\* the names a module can import from app.components.project_state
ProjectStateNames ==
    {"normalize_path_for_storage", "resolve_stored_path", "ensure_local_path",
     "list_projects", "ensure_dirs", "project_subdir", "manifest_path", "load_manifest",
     "save_manifest", "append_audit", "register_file", "register_chain_tx",
     "load_project_meta", "_deep_merge", "update_project_meta", "create_project",
     "use_project"}

\* from app.components.project_state import <name> raises ImportError
ImportRaises(name) == name \notin ProjectStateNames

\* load_project_meta(project_id).get("name", project_id)
ProjectNameOf(d, project_id) ==
    LET meta == DictGet(load_manifest(d, TRUE).manifest, "meta", Dct(EmptyDict)).v
    IN  IF "name" \in DOMAIN meta THEN meta["name"].v ELSE project_id

\* enriched_entries
Enriched(entries, project_id, project_name) ==
    [i \in DOMAIN entries |->
        [Project_ID |-> project_id, Project_Name |-> project_name, row |-> entries[i]]]

\* append_to_master_excel: the rows written to MASTER_EXCEL_PATH
append_to_master_excel(files, entries, project_id, project_name) ==
    LET new_df == Enriched(entries, project_id, project_name)
    IN  IF MASTER_EXCEL_PATH \in DOMAIN files.reports
        THEN IF files.reports[MASTER_EXCEL_PATH].as = "xlsx"
             THEN SelectSeq(files.reports[MASTER_EXCEL_PATH].rows,
                            LAMBDA r : r.Project_ID # project_id) \o new_df
             ELSE new_df
        ELSE new_df

\* the rows of the CSV after the loop over edited_entries; the first
\* MAX_BANKS rows are the ones shown in the editor
RECURSIVE UpdatedRows(_, _, _, _)
UpdatedRows(rows, shown, entries, idx) ==
    IF idx > Len(entries) THEN rows
    ELSE IF entries[idx] = "" THEN UpdatedRows(rows, shown, entries, idx + 1)
    ELSE IF idx <= shown
    THEN UpdatedRows([rows EXCEPT ![idx] = entries[idx]], shown, entries, idx + 1)
    ELSE UpdatedRows(Append(rows, entries[idx]), shown, entries, idx + 1)

\* "Save changes" pressed with the editor holding edited_entries
SaveChanges(edited_entries) ==
    LET df == RowsOf(fs, REG_PATH)
        shown == IF Len(df) < MAX_BANKS THEN Len(df) ELSE MAX_BANKS
        valid_entries == SelectSeq(edited_entries, LAMBDA e : e # "")
        updated_df == UpdatedRows(df, shown, edited_entries, 1)
        saved == [fs EXCEPT !.reports = DictSet(@, REG_PATH, TableFile("csv", updated_df))]
    IN  /\ ui.page = "master_bank_registry"
        /\ IF ui.selected /\ valid_entries # <<>>
           THEN IF ImportRaises("load_project_metadata")
                THEN /\ fs' = saved
                     /\ ui' = [ui EXCEPT !.shown = "saved_excel_warning"]
                ELSE /\ fs' = [saved EXCEPT !.reports =
                                  DictSet(@, MASTER_EXCEL_PATH,
                                      TableFile("xlsx",
                                          append_to_master_excel(saved, valid_entries, ProjectId,
                                              ProjectNameOf(disk, ProjectId))))]
                     /\ ui' = [ui EXCEPT !.shown = "saved_excel_updated"]
           ELSE /\ fs' = saved
                /\ ui' = [ui EXCEPT !.shown = "saved"]
        /\ ret' = Returned("save_changes", Lst(valid_entries), FALSE)
        /\ UNCHANGED <<disk, sess, tx, txlog>>

\* the Excel file as an earlier save left it
ExcelFiles ==
    {<<>>,
     <<[Project_ID |-> OtherProjectId, Project_Name |-> OtherProjectId, row |-> "bank B"]>>,
     <<[Project_ID |-> ProjectId, Project_Name |-> ProjectId, row |-> "bank A"],
       [Project_ID |-> OtherProjectId, Project_Name |-> OtherProjectId, row |-> "bank B"]>>}

InitMasterBank ==
    /\ disk = save_manifest(CreateProjectDoc(DEFAULT_STRUCTURE, EmptyDict, ProjectId))
    /\ ret = Returned("none", NoneVal, FALSE)
    /\ sess = [s \in Sessions |-> NoSession]
    /\ tx = NoTx
    /\ \E selected \in BOOLEAN :
          ui = [NoUi EXCEPT !.page = "master_bank_registry", !.selected = selected, !.clock = 1]
    /\ \E rows \in ExcelFiles :
          fs = IF rows = <<>> THEN NoFs
               ELSE [NoFs EXCEPT !.reports =
                        DictSet(@, MASTER_EXCEL_PATH, TableFile("xlsx", rows))]
    /\ txlog = <<>>

NextMasterBank ==
    \/ SelectProject
    \/ \E edited_entries \in [1..MAX_BANKS -> EntryValues] : SaveChanges(edited_entries)

SpecMasterBank == InitMasterBank /\ [][NextMasterBank]_vars

----------------------------------------------------------------------------
(* project_state.py use_project: the sidebar.  ui.selected tells whether
   st.session_state["project_id"] is the project, ui.shown is the value of
   the selectbox.  A project id is the sequence of its characters. *)

Placeholder == "-- Select Project --"
ProjectChars == <<"P", "1">>

\* the texts typed into "Create new project ID"; an id other than the one
\* of the project would create a project the model does not follow
NewIds ==
    {<<>>, <<" ">>, <<" ", " ">>, ProjectChars, <<" ">> \o ProjectChars, ProjectChars \o <<" ">>}

\* str.strip()
RECURSIVE StripLeft(_)
StripLeft(str) == IF str # <<>> /\ Head(str) = " " THEN StripLeft(Tail(str)) ELSE str
RECURSIVE StripRight(_)
StripRight(str) ==
    IF str # <<>> /\ str[Len(str)] = " " THEN StripRight(SubSeq(str, 1, Len(str) - 1)) ELSE str
Strip(str) == StripRight(StripLeft(str))

\* existing = list_projects(), as character sequences
ExistingIds(d) == IF list_projects(d) = <<>> THEN {} ELSE {ProjectChars}

\* Variant: the text is looked up as it was typed
IdTakenUnstripped(new_id, project_id, existing) == new_id \in existing

\* project_id in existing
IdTaken(new_id, project_id, existing) == project_id \in existing

\* the value of the selectbox in a run: the widget keeps its value while it
\* is among the options, else it falls back to default_index
SelectedIn(d) ==
    IF ui.shown = Placeholder \/ list_projects(d) # <<>> THEN ui.shown
    ELSE Placeholder

\* the end of use_project: the session follows a project chosen in the selectbox
SessionAfter(d, session) ==
    IF SelectedIn(d) # Placeholder /\ list_projects(d) # <<>> THEN TRUE ELSE session

ClickResult(new_id, warning) ==
    [t |-> "click", v |-> [new_id |-> new_id, warning |-> warning]]

\* a run of the page after the selectbox was set to choice
PickProject(choice) ==
    /\ ui.page = "sidebar"
    /\ choice \in {Placeholder} \cup {ProjectId : x \in ExistingIds(disk)}
    /\ choice # ui.shown
    /\ ui' = [ui EXCEPT !.shown = choice,
                        !.selected = IF choice # Placeholder THEN TRUE ELSE @]
    /\ ret' = Returned("pick_project", NoneVal, FALSE)
    /\ UNCHANGED <<disk, sess, tx, fs, txlog>>

\* "Create project" pressed with new_id in the text field
ClickCreateProject(new_id) ==
    LET existing == ExistingIds(disk)
        project_id == Strip(new_id)
    IN  /\ ui.page = "sidebar"
        /\ IF project_id = <<>>
           THEN /\ ret' = Returned("click_create_project",
                                   ClickResult(new_id, "Project ID cannot be empty."), TRUE)
                /\ ui' = [ui EXCEPT !.shown = SelectedIn(disk),
                                    !.selected = SessionAfter(disk, @)]
                /\ UNCHANGED disk
           ELSE IF IdTaken(new_id, project_id, existing)
           THEN /\ ret' = Returned("click_create_project",
                                   ClickResult(new_id, "Project ID already exists."), TRUE)
                /\ ui' = [ui EXCEPT !.shown = SelectedIn(disk),
                                    !.selected = SessionAfter(disk, @)]
                /\ UNCHANGED disk
           ELSE \* create_project, the session set, st.rerun(): the run after it
                /\ disk' = save_manifest(CreateProjectDoc(load_manifest(disk, TRUE).manifest,
                                             [created_at |-> Num(ui.clock)], ProjectId))
                /\ ret' = Returned("click_create_project", ClickResult(new_id, ""), FALSE)
                /\ ui' = [ui EXCEPT !.shown = SelectedIn(disk'), !.selected = TRUE]
        /\ UNCHANGED <<sess, tx, fs, txlog>>

\* the directory of the project is removed
ProjectRemoved ==
    /\ ui.page = "sidebar"
    /\ disk # NoFile
    /\ disk' = NoFile
    /\ ret' = Returned("external", NoneVal, FALSE)
    /\ UNCHANGED <<sess, tx, ui, fs, txlog>>

\* time passes
SidebarTick ==
    /\ ui.page = "sidebar"
    /\ ui.clock + 1 \in Times
    /\ ui' = [ui EXCEPT !.clock = ui.clock + 1]
    /\ ret' = Returned("none", NoneVal, FALSE)
    /\ UNCHANGED <<disk, sess, tx, fs, txlog>>

InitSidebar ==
    /\ disk \in {NoFile, save_manifest(CreateProjectDoc(DEFAULT_STRUCTURE, EmptyDict, ProjectId))}
    /\ ret = Returned("none", NoneVal, FALSE)
    /\ sess = [s \in Sessions |-> NoSession]
    /\ tx = NoTx
    /\ ui = [NoUi EXCEPT !.page = "sidebar", !.clock = 1, !.shown = Placeholder]
    /\ fs = NoFs
    /\ txlog = <<>>

NextSidebar ==
    \/ \E choice \in {Placeholder, ProjectId} : PickProject(choice)
    \/ \E new_id \in NewIds : ClickCreateProject(new_id)
    \/ ProjectRemoved
    \/ SidebarTick

SpecSidebar == InitSidebar /\ [][NextSidebar]_vars

----------------------------------------------------------------------------
(* pages/0_Project_Dashboard.py: the exports and their anchoring.  The
   session keeps the last bundle and the last summary of the project
   (project_bundles, project_summaries): ui.snapshot holds the two. *)

ArtifactKinds == {"ProjectBundle", "ProjectSummary"}

NoArtifacts == [kind \in ArtifactKinds |-> None]
ArtifactsOf(u) == IF u.snapshot = None THEN NoArtifacts ELSE u.snapshot[1]

\* generate_project_bundle / generate_project_summary_doc: the file written
ExportFile(kind, d, ts) ==
    [as |-> IF kind = "ProjectBundle" THEN "zip" ELSE "docx",
     manifest |-> load_manifest(d, TRUE).manifest, generated_at |-> ts]

ExportPath(kind, ts) ==
    PathOf(<<ProjectId, "exports", "">>,
           <<ProjectId, IF kind = "ProjectBundle" THEN "bundle" ELSE "summary", ts, NoPrefix>>,
           IF kind = "ProjectBundle" THEN "zip" ELSE "docx")

\* _register_export
RegisterExportCalls(kind, path, digest, ts) ==
    <<RegisterCall("exports",
          [label |-> Str(kind), filename |-> Pth(path), path |-> Pth(path),
           sha256 |-> Dig(digest), timestamp |-> Num(ts)]),
      AuditCall([timestamp |-> Num(ts), event |-> Str(kind \o "_generated"),
                 file |-> Pth(path), sha256 |-> Dig(digest)])>>

\* Variant: the chain entry and the audit entry are written whether or not
\* send_log_tx returned
AnchorStoreCallsUnguarded(kind, artifact, returned, tx_hash, ts) ==
    <<ChainCall([timestamp |-> Num(ts), step |-> Str(kind), tx_hash |-> Txh(tx_hash),
                 digest |-> Dig(artifact.digest), file |-> Pth(artifact.path),
                 metadata_uri |-> Pth(artifact.path)]),
      AuditCall([timestamp |-> Num(ts), event |-> Str(kind \o "_anchored"),
                 tx_hash |-> Txh(tx_hash), file |-> Pth(artifact.path),
                 digest |-> Dig(artifact.digest)])>>

\* the store calls of _anchor_artifact: none when send_log_tx raised
AnchorStoreCalls(kind, artifact, returned, tx_hash, ts) ==
    IF ~returned THEN <<>>
    ELSE <<ChainCall([timestamp |-> Num(ts), step |-> Str(kind), tx_hash |-> Txh(tx_hash),
                      digest |-> Dig(artifact.digest), file |-> Pth(artifact.path),
                      metadata_uri |-> Pth(artifact.path)]),
           AuditCall([timestamp |-> Num(ts), event |-> Str(kind \o "_anchored"),
                      tx_hash |-> Txh(tx_hash), file |-> Pth(artifact.path),
                      digest |-> Dig(artifact.digest)])>>

\* "Generate project bundle (ZIP)" / "Generate project summary (DOCX)"
GenerateExport(kind) ==
    LET ts == ui.clock
        path == ExportPath(kind, ts)
        file == ExportFile(kind, disk, ts)
        digest == sha256_bytes(file)
        info == [filename |-> path, path |-> path, digest |-> digest, timestamp |-> ts,
                 tx_hash |-> 0]
    IN  /\ ui.page = "dashboard"
        /\ ui.selected
        /\ ui.runs < MaxRuns
        /\ fs' = [fs EXCEPT !.reports = DictSet(@, path, file)]
        /\ disk' = StoreCalls(disk, RegisterExportCalls(kind, path, digest, ts))
        /\ ui' = [ui EXCEPT !.snapshot = Some([ArtifactsOf(ui) EXCEPT ![kind] = Some(info)]),
                            !.runs = @ + 1, !.shown = "export_created"]
        /\ UNCHANGED <<ret, sess, tx, txlog>>

\* "Anchor project bundle" / "Anchor project summary": _anchor_artifact.
\* raises: send_log_tx raises instead of returning.
AnchorArtifact(kind, raises) ==
    LET artifact == ArtifactsOf(ui)[kind][1]
        tx_hash == Len(txlog) + 1
        call == [page |-> "dashboard", step |-> kind, hex_digest |-> artifact.digest,
                 metadata_uri |-> AsUri(artifact.path),
                 returned |-> ~raises, tx_hash |-> IF raises THEN 0 ELSE tx_hash]
    IN  /\ ui.page = "dashboard"
        /\ ui.selected
        /\ ui.runs < MaxRuns
        /\ ArtifactsOf(ui)[kind] # None
        /\ IF artifact.tx_hash # 0
           THEN /\ ui' = [ui EXCEPT !.runs = @ + 1, !.shown = "already_anchored"]
                /\ UNCHANGED <<disk, txlog>>
           ELSE /\ txlog' = Append(txlog, call)
                /\ disk' = StoreCalls(disk, AnchorStoreCalls(kind, artifact, ~raises, tx_hash, ui.clock))
                /\ ui' = [ui EXCEPT
                             !.snapshot = IF raises THEN @
                                          ELSE Some([ArtifactsOf(ui) EXCEPT
                                                        ![kind] = Some([artifact EXCEPT !.tx_hash = tx_hash])]),
                             !.runs = @ + 1,
                             !.shown = IF raises THEN "anchoring_failed" ELSE "anchored"]
        /\ UNCHANGED <<ret, sess, tx, fs>>

\* the pages that catch what send_log_tx raises and report it
PagesCaught == {"design", "lageso_audit", "dashboard"}

InitAnchor ==
    /\ disk = save_manifest(CreateProjectDoc(DEFAULT_STRUCTURE, EmptyDict, ProjectId))
    /\ ret = Returned("none", NoneVal, FALSE)
    /\ sess = [s \in Sessions |-> NoSession]
    /\ tx = NoTx
    /\ \E page \in PagesCaught, selected \in BOOLEAN :
          /\ page \in {"lageso_audit", "dashboard"} => selected
          /\ ui = [NoUi EXCEPT !.page = page, !.selected = selected, !.clock = 1]
    /\ fs = NoFs
    /\ txlog = <<>>

NextAnchor ==
    \/ \E form \in Forms, abort \in BOOLEAN : SaveSnapshot(form, abort)
    \/ \E raises \in BOOLEAN : Anchor(raises)
    \/ \E kind \in ArtifactKinds : GenerateExport(kind)
    \/ \E kind \in ArtifactKinds, raises \in BOOLEAN : AnchorArtifact(kind, raises)

SpecAnchor == InitAnchor /\ [][NextAnchor]_vars

----------------------------------------------------------------------------
(* Reading a manifest file for the properties *)

\* What a successful load_manifest sees: the document, or the default when
\* there is no file
DocOf(d) == IF d.st = "ok" THEN d.doc ELSE DEFAULT_STRUCTURE
FilesOf(doc) == IF "files" \in DOMAIN doc THEN doc["files"].v ELSE EmptyDict
ListAt(f, k) == IF k \in DOMAIN f THEN f[k].v ELSE <<>>
MetaOf(doc) == IF "meta" \in DOMAIN doc THEN doc["meta"].v ELSE EmptyDict

IsPrefix(a, b) == Len(a) <= Len(b) /\ \A i \in 1..Len(a) : a[i] = b[i]

Readable(d) == d.st # "corrupt"

\* every entry of every list of doc a is in doc b, at the same position
ListsKept(a, b) ==
    /\ \A c \in DOMAIN FilesOf(a) :
          c \in DOMAIN FilesOf(b) /\ IsPrefix(ListAt(FilesOf(a), c), ListAt(FilesOf(b), c))
    /\ IsPrefix(ListAt(a, "chain"), ListAt(b, "chain"))
    /\ IsPrefix(ListAt(a, "audit"), ListAt(b, "audit"))

\* doc b is doc a with top-level key k set and nothing else changed
OnlyKeyChanged(a, b, k) ==
    /\ DOMAIN b = (DOMAIN a) \cup {k}
    /\ \A x \in (DOMAIN a) \ {k} : b[x] = a[x]

----------------------------------------------------------------------------
(* C1 *)

C1_RegisterFile(c, p) ==
    LET a == DocOf(disk)
        b == disk'.doc
    IN  /\ disk'.st = "ok"
        /\ OnlyKeyChanged(a, b, "files")
        /\ DOMAIN FilesOf(b) = (DOMAIN FilesOf(a)) \cup {c}
        /\ \A x \in (DOMAIN FilesOf(a)) \ {c} : FilesOf(b)[x] = FilesOf(a)[x]
        /\ FilesOf(b)[c] = Lst(Append(ListAt(FilesOf(a), c), p))

C1_AppendList(k, p) ==
    LET a == DocOf(disk)
        b == disk'.doc
    IN  /\ disk'.st = "ok"
        /\ OnlyKeyChanged(a, b, k)
        /\ b[k] = Lst(Append(ListAt(a, k), p))

C1_Step ==
    (Readable(disk) /\ ~ret'.warned) =>
        /\ ret'.op = "register_file" =>
              \A c \in Categories, p \in Payloads :
                  register_file(c, p, TRUE) => C1_RegisterFile(c, p)
        /\ ret'.op = "append_audit" =>
              \A p \in Payloads : append_audit(p, TRUE) => C1_AppendList("audit", p)
        /\ ret'.op = "register_chain_tx" =>
              \A p \in Payloads : register_chain_tx(p, TRUE) => C1_AppendList("chain", p)
        /\ ret'.op # "external" => ListsKept(DocOf(disk), disk'.doc)

\* C1: with every manifest read succeeding, register_file, append_audit and
\* register_chain_tx each add exactly their payload at the end of their own
\* list (files[category] created if absent) and change nothing else, and no
\* call of the store removes or reorders an entry of files, chain or audit.
C1_AppendOnly == [][C1_Step]_vars

C1_Witness ==
    /\ ret.op = "register_file"
    /\ disk.st = "ok"
    /\ "exports" \in DOMAIN FilesOf(disk.doc)
    /\ Len(ListAt(FilesOf(disk.doc), "exports")) = 2
    /\ ListAt(FilesOf(disk.doc), "exports")[1] # ListAt(FilesOf(disk.doc), "exports")[2]

----------------------------------------------------------------------------
(* C7 *)

\* new is old merged with u by the deep-merge rule, key by key
RECURSIVE MergedBy(_, _, _)
MergedBy(old, u, new) ==
    /\ DOMAIN new = (DOMAIN old) \cup (DOMAIN u)
    /\ \A k \in (DOMAIN old) \ (DOMAIN u) : new[k] = old[k]
    /\ \A k \in DOMAIN u :
          IF k \in DOMAIN old /\ IsDict(old[k]) /\ IsDict(u[k])
          THEN IsDict(new[k]) /\ MergedBy(old[k].v, u[k].v, new[k].v)
          ELSE new[k] = u[k]

C7_Step ==
    ret'.op = "update_project_meta" =>
        \A u \in MetaUpdates :
            update_project_meta(u, TRUE) =>
                LET a == DocOf(disk)
                    b == disk'.doc
                IN  /\ disk'.st = "ok"
                    /\ ~ret'.raised
                    /\ IsDict(ret'.val)
                    /\ MergedBy(MetaOf(a), u, ret'.val.v)
                    /\ b["meta"] = ret'.val
                    /\ OnlyKeyChanged(a, b, "meta")

\* C7: update_project_meta(p, u) stores and returns the old meta deep-merged
\* with u: a key of u holds the recursive merge when both sides are dicts and
\* u's value otherwise, every other key keeps its value at every level, and
\* files, chain and audit of the manifest are unchanged.
C7_DeepMerge == [][C7_Step]_vars

\* a third-level sibling survived a later nested update
C7_Witness ==
    /\ ret.op = "update_project_meta"
    /\ "compliance" \in DOMAIN ret.val.v
    /\ IsDict(ret.val.v["compliance"])
    /\ "gene" \in DOMAIN ret.val.v["compliance"].v
    /\ "site" \in DOMAIN ret.val.v["compliance"].v
    /\ DOMAIN ret.val.v["compliance"].v["site"].v = {"city", "zip"}
    /\ ret.val.v["owner"] = Str("alice")
    /\ NumEntries(disk) > 0

----------------------------------------------------------------------------
(* C8 *)

DefaultFile == [st |-> "ok", doc |-> DEFAULT_STRUCTURE]

C8_Step ==
    ret'.op = "load_manifest" =>
        \A readOk \in BOOLEAN :
            CallLoadManifest(readOk) =>
                /\ ~ret'.raised
                /\ (disk.st = "corrupt" \/ (disk.st = "ok" /\ ~readOk)) =>
                      /\ ret'.warned
                      /\ ret'.val = Dct(DEFAULT_STRUCTURE)
                      /\ disk' = DefaultFile
                /\ disk.st = "absent" =>
                      /\ ret'.val = Dct(DEFAULT_STRUCTURE)
                      /\ disk' = DefaultFile

----------------------------------------------------------------------------
(* C9 *)

\* C9: starting with no manifest file, after any sequence of store calls the
\* stored manifest has exactly the keys meta, files, chain and audit; meta is
\* a mapping, files maps categories to lists, chain and audit are lists.
C9_Shape ==
    disk.st = "ok" =>
        /\ DOMAIN disk.doc = {"meta", "files", "chain", "audit"}
        /\ IsDict(disk.doc["meta"])
        /\ IsDict(disk.doc["files"])
        /\ \A c \in DOMAIN disk.doc["files"].v : IsList(disk.doc["files"].v[c])
        /\ IsList(disk.doc["chain"])
        /\ IsList(disk.doc["audit"])

C9_Witness ==
    /\ disk.st = "ok"
    /\ "project_id" \in DOMAIN disk.doc["meta"].v
    /\ "exports" \in DOMAIN disk.doc["files"].v
    /\ Len(disk.doc["chain"].v) > 0

----------------------------------------------------------------------------
(* C2 *)

NumEntriesDoc(m) == NumEntries([st |-> "ok", doc |-> m])

IsAppend(op) == op \in {"register_file", "append_audit", "register_chain_tx"}

\* the stored document shows update u
Shows(doc, u) ==
    CASE u.op = "register_file" ->
            \E i \in DOMAIN ListAt(FilesOf(doc), u.cat) : ListAt(FilesOf(doc), u.cat)[i] = u.arg
      [] u.op = "append_audit" -> \E i \in DOMAIN ListAt(doc, "audit") : ListAt(doc, "audit")[i] = u.arg
      [] u.op = "register_chain_tx" -> \E i \in DOMAIN ListAt(doc, "chain") : ListAt(doc, "chain")[i] = u.arg
      [] u.op = "update_project_meta" -> MergedBy(MetaOf(doc), u.arg.v, MetaOf(doc))

C2_Step ==
    \A s \in Sessions :
        (sess[s].pc = "loaded" /\ sess'[s].pc = "idle") =>
            LET m == sess[s].manifest
                b == disk'.doc
            IN  /\ disk'.st = "ok"
                /\ Len(sess'[s].done) = Len(sess[s].done) + 1
                /\ ListsKept(m, b)
                /\ NumEntriesDoc(b) = NumEntriesDoc(m) + (IF IsAppend(sess[s].op) THEN 1 ELSE 0)
                /\ IsAppend(sess[s].op) => MetaOf(b) = MetaOf(m)
                /\ Shows(b, [op |-> sess[s].op, cat |-> sess[s].cat, arg |-> sess[s].arg])

\* C2: nothing in the store locks or detects a concurrent writer: a call that
\* loaded the manifest always saves and returns, and what it stores is the
\* document as it loaded it plus its own change, whatever was stored in
\* between; so two overlapping calls can both return with only one of their
\* updates stored (C2_LostUpdate).
C2_Overwrite == [][C2_Step]_vars

\* both calls returned, the stored manifest shows one update and not the other
C2_LostUpdate ==
    /\ \A s \in Sessions : sess[s].pc = "idle" /\ Len(sess[s].done) = 1
    /\ sess["s1"].done[1].op = "register_file"
    /\ sess["s2"].done[1].op = "register_file"
    /\ sess["s1"].done[1] # sess["s2"].done[1]
    /\ disk.st = "ok"
    /\ \E s \in Sessions : Shows(disk.doc, sess[s].done[1])
    /\ \E s \in Sessions : ~Shows(disk.doc, sess[s].done[1])

----------------------------------------------------------------------------
(* C4 *)

TxSteps ==
    <<"estimate_gas", "build_transaction", "sign_transaction", "send_raw_transaction",
      "wait_for_transaction_receipt">>

\* C4: once the preconditions hold, send_log_tx estimates gas (200000 when
\* the estimation raises), builds with gas int(estimate * 1.2) + 5000, signs,
\* sends and waits for the receipt, in this order and each once; it returns
\* the hash only with the receipt, and raises when the wait fails after the
\* transaction was sent.
C4_StepOrder ==
    /\ IsPrefix(tx.calls, TxSteps)
    /\ tx.pc \in {"build", "sign", "send", "wait", "returned"} =>
          /\ tx.gas_estimate = (IF tx.est_raised THEN 200000 ELSE tx.gas_estimate)
          /\ tx.gas_estimate \in GasEstimates \cup {200000}
          /\ 10 * (tx.gas_limit - 5000) <= 12 * tx.gas_estimate
          /\ 12 * tx.gas_estimate < 10 * (tx.gas_limit - 5000 + 1)
    /\ tx.pc = "build" => tx.calls = SubSeq(TxSteps, 1, 1)
    /\ tx.pc = "sign" => tx.calls = SubSeq(TxSteps, 1, 2)
    /\ tx.pc = "send" => tx.calls = SubSeq(TxSteps, 1, 3)
    /\ tx.pc = "wait" => tx.calls = SubSeq(TxSteps, 1, 4) /\ tx.sent # "none"
    /\ tx.pc = "returned" => tx.calls = TxSteps /\ tx.sent # "none" /\ tx.result = tx.sent
    /\ tx.pc # "returned" => tx.result = "none"
    /\ (tx.pc = "raised" /\ tx.err = "wait_for_transaction_receipt") =>
          tx.calls = TxSteps /\ tx.sent # "none"
    /\ (tx.pc = "raised" /\ tx.err # "wait_for_transaction_receipt") => tx.sent = "none"

\* the estimation raised and the call still returned, with gas 245000
C4_Witness ==
    /\ tx.pc = "returned"
    /\ tx.est_raised
    /\ tx.gas_limit = 245000
    /\ tx.calls = TxSteps

\* the wait failed after the transaction was sent
C4_RaisedAfterSend ==
    tx.pc = "raised" /\ tx.sent # "none" /\ tx.calls = TxSteps

----------------------------------------------------------------------------
(* C10 *)

HexChars == {"0", "1", "2", "3", "4", "5", "6", "7", "8", "9", "a", "b", "c", "d", "e", "f"}

\* the input after lower-casing and removing a leading 0x
Stripped(str) == RemovePrefix0x(Lower(str))

Is64Hex(str) == Len(str) = 64 /\ \A i \in DOMAIN str : str[i] \in HexChars

\* C10: _normalize_digest raises for every input that, lower-cased and
\* without a leading 0x, is not 64 hexadecimal characters, and returns 0x and
\* those 64 characters for every other input.
C10_ExactlyHex ==
    (tx.pc \in {"estimate", "raised"} /\ tx.err # "RuntimeError") =>
        /\ (tx.err = "ValueError") <=> ~Is64Hex(Stripped(tx.hex_digest))
        /\ tx.pc = "estimate" => tx.digest = <<"0", "x">> \o Stripped(tx.hex_digest)

\* what the code checks: the length alone
C10_LengthOnly ==
    (tx.pc \in {"estimate", "raised"} /\ tx.err # "RuntimeError") =>
        /\ (tx.err = "ValueError") <=> Len(Stripped(tx.hex_digest)) # 64
        /\ tx.pc = "estimate" => tx.digest = <<"0", "x">> \o Stripped(tx.hex_digest)

----------------------------------------------------------------------------
(* C3 *)

C3_Pages == {"design", "delivery", "seed_bank"}

SnapshotEntries == ListAt(FilesOf(DocOf(disk)), "snapshots")

\* the entries of files.snapshots registered by the three pages
C3_Entries == {i \in DOMAIN SnapshotEntries : SnapshotEntries[i].v.step.v \in C3_Pages}

\* the digest of every such entry is the SHA-256 of the file at its path,
\* which is named with the entry's timestamp and digest[:12]
C3_DigestOfFile ==
    \A i \in C3_Entries :
        LET e == SnapshotEntries[i].v
        IN  /\ e.path.v \in DOMAIN fs.snapshots
            /\ sha256_bytes(fs.snapshots[e.path.v]) = e.digest.v
            /\ e.path.v.stem[3] = e.timestamp.v
            /\ e.path.v.stem[4] = Prefix12(e.digest.v)

\* no step changes the content of a registered snapshot file
C3_Kept ==
    \A i \in C3_Entries :
        LET p == SnapshotEntries[i].v.path.v
        IN  p \in DOMAIN fs.snapshots =>
                p \in DOMAIN fs'.snapshots /\ fs'.snapshots[p] = fs.snapshots[p]

\* C3: for every snapshot entry the Design, Delivery or Seed Bank page
\* registers in files.snapshots, the digest is the SHA-256 of the bytes of the
\* file at the entry's path, now and after every later save: a save writes a
\* file named with its timestamp and the first 12 characters of its digest and
\* leaves the registered files as they are.
C3_SnapshotDigest == [](C3_DigestOfFile) /\ [][C3_Kept]_vars

\* two snapshots of different content saved in the same second, both registered
C3_Witness ==
    /\ ui.page \in C3_Pages
    /\ \E i, j \in C3_Entries :
          /\ i < j
          /\ SnapshotEntries[i].v.timestamp = SnapshotEntries[j].v.timestamp
          /\ SnapshotEntries[i].v.digest # SnapshotEntries[j].v.digest
          /\ SnapshotEntries[i].v.path # SnapshotEntries[j].v.path
          /\ sha256_bytes(fs.snapshots[SnapshotEntries[i].v.path.v]) = SnapshotEntries[i].v.digest.v

----------------------------------------------------------------------------
(* C5 *)

\* a step that calls send_log_tx starts with a snapshot and a readiness
\* result with ready = true and no issue in the session, and passes the
\* digest of that snapshot
C5_Step ==
    txlog' # txlog =>
        /\ ui.page \in Pages
        /\ ui.snapshot # None
        /\ ui.readiness # None
        /\ ui.readiness[1].ready
        /\ ui.readiness[1].issues = <<>>
        /\ Len(txlog') = Len(txlog) + 1
        /\ txlog'[Len(txlog')].page = ui.page
        /\ txlog'[Len(txlog')].hex_digest = ui.snapshot[1].digest

\* the button is disabled exactly when there is no readiness result or the
\* result lists an issue, whatever its warnings
C5_Button ==
    (ui.page \in Pages /\ ui.snapshot # None) =>
        (AnchorDisabled(ui.readiness) <=>
            (ui.readiness = None \/ ui.readiness[1].issues # <<>>))

\* C5: on the eight pages send_log_tx is called only in a run that starts
\* with a snapshot in the session and a readiness result with ready = true
\* (no issue); with no result or with an issue the button is disabled and
\* nothing is sent; warnings do not disable the button.
C5_AnchorGuard == [][C5_Step]_vars /\ [](C5_Button)

\* a transaction was sent for a snapshot whose readiness result has a warning
C5_Witness ==
    /\ Len(txlog) > 0
    /\ txlog[1].returned
    /\ ui.readiness # None
    /\ ui.readiness[1].ready
    /\ ui.readiness[1].warnings # <<>>

----------------------------------------------------------------------------
(* C6 *)

\* the step is an anchoring that succeeded: send_log_tx returned
Anchored == txlog' # txlog /\ txlog'[Len(txlog')].returned

\* the chainproof file of the snapshot holds the hash and digest of the call
ProofOfCall(call, files) ==
    LET p == ProofPath(ui.snapshot[1].outfile)
    IN  /\ p \in DOMAIN files.proofs
        /\ files.proofs[p].tx_hash = call.tx_hash
        /\ files.proofs[p].content_hash = call.hex_digest
        /\ files.proofs[p].step = call.step

C6_Step == Anchored => ProofOfCall(txlog'[Len(txlog')], fs')

\* C6: every successful anchoring of a snapshot writes a chainproof record
\* holding the transaction hash returned by send_log_tx and, as content hash,
\* the digest passed to send_log_tx.
C6_ChainproofWritten == [][C6_Step]_vars

\* what the code does: the six pages that write a chainproof write this one
C6_SixPages == [][ui.page \notin PagesNoProof => C6_Step]_vars

\* an anchoring on the Master Bank page succeeded
C6_MasterBankAnchored ==
    /\ ui.page = "master_bank_registry"
    /\ Len(txlog) > 0
    /\ txlog[1].returned

----------------------------------------------------------------------------
(* The binder *)

\* the report entries of the manifest file
StoredReports == ReportsOf(DocOf(disk))

\* the step ran the binder to its end: its entry was registered
BinderBuilt ==
    /\ Len(ReportsOf(DocOf(disk'))) = Len(StoredReports) + 1
    /\ LET new == ReportsOf(DocOf(disk'))[Len(StoredReports) + 1]
       IN  DictGet(new.v, "step", NoneVal) = Str("assured_binder")

\* the files the binder of this step merged, in order
MergedNow ==
    LET new == ReportsOf(DocOf(disk'))[Len(StoredReports) + 1]
    IN  fs'.reports[new.v.path.v].merged

\* entry i was registered as a PDF report of a step and its file exists
StepReportThere(i) ==
    /\ IsPdfEntry(StoredReports[i])
    /\ DictGet(StoredReports[i].v, "step", NoneVal) # Str("assured_binder")
    /\ PathExists(fs, StoredReports[i].v.path.v)

\* path p is the file of entry i
FileOfEntry(p, i) == ResolvePath(StoredReports[i].v.path.v) = p

C11_LatestOfStep(p) ==
    \E i \in DOMAIN StoredReports :
        /\ StepReportThere(i)
        /\ FileOfEntry(p, i)
        /\ \A j \in DOMAIN StoredReports :
              (StepReportThere(j) /\ StepOf(StoredReports[j]) = StepOf(StoredReports[i]))
                  => TimestampOf(StoredReports[j]) <= TimestampOf(StoredReports[i])

C11_Step ==
    BinderBuilt =>
        /\ \A k \in DOMAIN MergedNow : C11_LatestOfStep(MergedNow[k])
        /\ \A k1, k2 \in DOMAIN MergedNow :
              k1 # k2 => ~\E i, j \in DOMAIN StoredReports :
                            /\ FileOfEntry(MergedNow[k1], i)
                            /\ FileOfEntry(MergedNow[k2], j)
                            /\ StepOf(StoredReports[i]) = StepOf(StoredReports[j])
        /\ \A k \in DOMAIN MergedNow :
              ~\E i \in DOMAIN StoredReports :
                  /\ FileOfEntry(MergedNow[k], i)
                  /\ DictGet(StoredReports[i].v, "step", NoneVal) = Str("assured_binder")

\* C11: whenever the binder is built (build_binder of the script or the
\* button of the Dashboard), every file it merges is the file of a registered
\* PDF report of a step other than assured_binder whose file exists and whose
\* timestamp is the greatest among the existing reports of that step, and no
\* two merged files belong to the same step
C11_LatestPerStep == [][C11_Step]_vars

\* a binder holds the later report of a step although the earlier one was
\* registered after it and both files exist
C11_Witness ==
    \E s \in BinderSteps, ts \in Times :
        /\ BinderPath(ts) \in DOMAIN fs.reports
        /\ fs.reports[BinderPath(ts)].merged = <<StepReportPath(s, 2)>>
        /\ StepReportPath(s, 1) \in DOMAIN fs.reports
        /\ fs.reports[StepReportPath(s, 1)].as = "pdf"
        /\ \E i, j \in DOMAIN StoredReports :
              /\ i < j
              /\ StoredReports[i].v.path = Pth(StepReportPath(s, 2))
              /\ StoredReports[j].v.path = Pth(StepReportPath(s, 1))
              /\ DictGet(StoredReports[j + 1].v, "step", NoneVal) = Str("assured_binder")

\* the place of a step in the binder: its index in ASSURED_STEP_ORDER, and
\* one place after them for every other step
StepRank(step) ==
    IF InStepOrder(step)
    THEN CHOOSE i \in DOMAIN ASSURED_STEP_ORDER : ASSURED_STEP_ORDER[i] = step
    ELSE Len(ASSURED_STEP_ORDER) + 1

C19_Step ==
    BinderBuilt =>
        \A k1, k2 \in DOMAIN MergedNow :
            k1 < k2 =>
                \A i, j \in DOMAIN StoredReports :
                    (/\ StepReportThere(i) /\ FileOfEntry(MergedNow[k1], i)
                     /\ StepReportThere(j) /\ FileOfEntry(MergedNow[k2], j))
                    => /\ StepRank(StepOf(StoredReports[i])) <= StepRank(StepOf(StoredReports[j]))
                       /\ InStepOrder(StepOf(StoredReports[j]))
                             => StepRank(StepOf(StoredReports[i])) < StepRank(StepOf(StoredReports[j]))

\* C19: whenever the binder is built, the files it merges follow the order
\* charter, design, delivery, assessment, cloning, seed_bank,
\* master_bank_registry of their steps, and the file of every step outside
\* that list comes after the files of the listed steps, whatever the order
\* and the timestamps of the manifest entries
C19_MergeOrder == [][C19_Step]_vars

\* a binder holds design, delivery, screening in this order while the
\* manifest lists them in the opposite order and design has the latest
\* timestamp
C19_Witness ==
    /\ BinderPath(2) \in DOMAIN fs.reports
    /\ fs.reports[BinderPath(2)].merged =
          <<StepReportPath("design", 2), StepReportPath("delivery", 1),
            StepReportPath("screening", 1)>>
    /\ Len(StoredReports) >= 3
    /\ StoredReports[1].v.path = Pth(StepReportPath("screening", 1))
    /\ StoredReports[2].v.path = Pth(StepReportPath("delivery", 1))
    /\ StoredReports[3].v.path = Pth(StepReportPath("design", 2))

----------------------------------------------------------------------------
(* Repairing a manifest *)

\* the number of files.reports entries of manifest file d with path p
EntriesOfPath(d, p) ==
    Cardinality({i \in DOMAIN ReportsOf(DocOf(d)) :
                    /\ IsDict(ReportsOf(DocOf(d))[i])
                    /\ DictGet(ReportsOf(DocOf(d))[i].v, "path", NoneVal) = Pth(p)})

Repaired == ret'.op = "repair_manifest" /\ ~ret'.raised
DryRun == ret'.op = "repair_manifest_dry_run" /\ ~ret'.raised

\* every PDF under the reports directory that had no entry has exactly one
\* afterwards, with step, path, timestamp, digest and type pdf
C12_OrphansRegistered ==
    [][Repaired =>
          \A p \in PdfsUnderReports(fs) :
              EntriesOfPath(disk, p) = 0 =>
                  /\ EntriesOfPath(disk', p) = 1
                  /\ \E i \in DOMAIN ReportsOf(DocOf(disk')) :
                        LET e == ReportsOf(DocOf(disk'))[i].v
                        IN  /\ DOMAIN e = {"step", "path", "timestamp", "digest", "type"}
                            /\ e.path = Pth(p)
                            /\ e.type = Str("pdf")
                            /\ e.digest = Dig(sha256_bytes(fs.reports[p]))]_vars

\* a second call right after a repair returns clean
C12_SecondCallClean ==
    [][Repaired => find_orphaned_pdfs(load_manifest(disk', TRUE).manifest, fs') = {}]_vars

\* C12: repair_manifest registers exactly the orphaned PDFs: a PDF under the
\* reports directory that already has an entry in files.reports gets no
\* further entry
C12_NoSecondEntry ==
    [][Repaired =>
          \A p \in PdfsUnderReports(fs) :
              EntriesOfPath(disk, p) > 0 => EntriesOfPath(disk', p) = EntriesOfPath(disk, p)]_vars

\* the result of a dry run names the files a repair would register
C13_ResultListsFiles ==
    [][DryRun =>
          {ret'.val.v.files[i].path : i \in DOMAIN ret'.val.v.files}
              = find_orphaned_pdfs(load_manifest(disk, TRUE).manifest, fs)]_vars

\* C13: repair_manifest(project, dry_run=True) leaves the stored manifest
\* and the set of existing projects as they were, whatever the project id
\* and the orphaned PDFs
C13_DryRunChangesNothing ==
    [][DryRun => (disk' = disk /\ list_projects(disk') = list_projects(disk))]_vars

----------------------------------------------------------------------------
(* Registering the report of a step *)

\* the number of files.reports entries of manifest file d with path p and step s
EntriesOfStepPath(d, p, s) ==
    Cardinality({i \in DOMAIN ReportsOf(DocOf(d)) :
                    /\ IsDict(ReportsOf(DocOf(d))[i])
                    /\ DictGet(ReportsOf(DocOf(d))[i].v, "path", NoneVal) = Pth(p)
                    /\ DictGet(ReportsOf(DocOf(d))[i].v, "step", NoneVal) = Str(s)})

\* an entry is added only where there was none with its path and step
C14_AddsOnce ==
    \A p \in PageReportPaths, s \in PagesDedupe :
        EntriesOfStepPath(disk', p, s) # EntriesOfStepPath(disk, p, s)
            => (EntriesOfStepPath(disk, p, s) = 0 /\ EntriesOfStepPath(disk', p, s) = 1)

\* the value ensure_pdf_registered returns
C14_Returns ==
    (ret'.op = "ensure_pdf_registered" /\ ui' = ui /\ fs' = fs) =>
        /\ ret'.val = Bool(Len(ReportsOf(DocOf(disk'))) = Len(ReportsOf(DocOf(disk))) + 1)
        /\ ret'.val = Bool(FALSE) => disk' = disk
        /\ \A p \in PageReportPaths, s \in PagesDedupe :
              (p \notin DOMAIN fs.reports \/ EntriesOfStepPath(disk, p, s) > 0)
                  => EntriesOfStepPath(disk', p, s) = EntriesOfStepPath(disk, p, s)

\* C14: on the Delivery, Assessment and Cloning pages and in
\* ensure_pdf_registered a report entry is added only when the manifest has
\* no entry with the same path and step, and ensure_pdf_registered returns
\* True exactly when it added the entry, False when the file is missing or
\* the entry is there
C14_Idempotent == [][C14_AddsOnce /\ C14_Returns]_vars

\* the page was saved twice and wrote the same report file both times, the
\* manifest holds one entry of it, and ensure_pdf_registered, called for the
\* file, returned False
C14_Witness ==
    /\ ui.runs = 2
    /\ ret.op = "ensure_pdf_registered"
    /\ ret.val = Bool(FALSE)
    /\ Len(ReportsOf(DocOf(disk))) = 1
    /\ \E p \in PageReportPaths :
          /\ p \in DOMAIN fs.reports
          /\ EntriesOfStepPath(disk, p, ui.page) = 1

----------------------------------------------------------------------------
(* Anchoring the Editing Verification report *)

\* the step is the run started by a click on the anchor button
AnchorReportClicked ==
    /\ ui.snapshot # None
    /\ ui'.snapshot = None
    /\ ret'.op = "click_anchor_report"

\* C15: after the form was submitted and the report generated, the run
\* started by a click on "Anchor report on-chain (Sepolia)" calls
\* send_log_tx with the SHA-256 of the generated DOCX and the URI of the
\* report file
C15_AnchorCallsSend ==
    [][AnchorReportClicked =>
          /\ Len(txlog') = Len(txlog) + 1
          /\ txlog'[Len(txlog')].hex_digest = ui.snapshot[1].digest
          /\ txlog'[Len(txlog')].hex_digest = sha256_bytes(fs.reports[ui.snapshot[1].outfile])
          /\ txlog'[Len(txlog')].metadata_uri = AsUri(ui.snapshot[1].outfile)]_vars

\* the page never calls send_log_tx
C15_NeverSent == txlog = <<>>

----------------------------------------------------------------------------
(* The consolidated Excel file *)

\* the step is "Save changes" with a project selected and entries that are
\* not empty
SavedInProject ==
    /\ ret'.op = "save_changes"
    /\ ret'.val.v # <<>>
    /\ ui.selected
    /\ ui'.selected
    /\ ui'.shown # "none"

\* C16: "Save changes" with a project selected and at least one entry that
\* is not empty writes the entries, tagged with the id and the name of the
\* project, to the consolidated Excel file: the rows the project had there
\* are replaced, the rows of other projects are kept
C16_ExcelUpdated ==
    [][SavedInProject =>
          RowsOf(fs', MASTER_EXCEL_PATH) =
              SelectSeq(RowsOf(fs, MASTER_EXCEL_PATH), LAMBDA r : r.Project_ID # ProjectId)
              \o Enriched(ret'.val.v, ProjectId, ProjectNameOf(disk, ProjectId))]_vars

\* "Save changes" never changes the Excel file
C16_ExcelNeverWritten ==
    [][RowsOf(fs', MASTER_EXCEL_PATH) = RowsOf(fs, MASTER_EXCEL_PATH)]_vars

----------------------------------------------------------------------------
(* Creating a project in the sidebar *)

\* the step is a run started by "Create project"
CreateClicked == ret'.op = "click_create_project" /\ ret' # ret

C17_Step ==
    CreateClicked =>
        LET new_id == ret'.val.v.new_id
            rejected == Strip(new_id) = <<>> \/ Strip(new_id) \in ExistingIds(disk)
        IN  /\ Strip(new_id) = <<>> => ret'.val.v.warning = "Project ID cannot be empty."
            /\ (Strip(new_id) # <<>> /\ Strip(new_id) \in ExistingIds(disk))
                  => ret'.val.v.warning = "Project ID already exists."
            /\ rejected =>
                  /\ ret'.warned
                  /\ disk' = disk
                  /\ list_projects(disk') = list_projects(disk)
                  /\ ui'.selected = ui.selected

\* C17: "Create project" with an id that is empty after strip() warns
\* "Project ID cannot be empty.", with the id of an existing project
\* "Project ID already exists."; in both cases no directory and no manifest
\* is created or changed and the project of the session stays
C17_CreateRejected == [][C17_Step]_vars

\* the id of the existing project, typed with blanks around it, was
\* rejected while the session had the project selected
C17_Witness ==
    /\ ret.op = "click_create_project"
    /\ ret.warned
    /\ ret.val.v.warning = "Project ID already exists."
    /\ ret.val.v.new_id # Strip(ret.val.v.new_id)
    /\ disk # NoFile
    /\ ui.selected

----------------------------------------------------------------------------
(* Anchoring when send_log_tx raises *)

\* the audit entries that name a transaction
AnchoredAudit(d) ==
    SelectSeq(ListAt(DocOf(d), "audit"), LAMBDA e : IsDict(e) /\ "tx_hash" \in DOMAIN e.v)

ChainOf(d) == ListAt(DocOf(d), "chain")

\* the step called send_log_tx
SendCalled == Len(txlog') = Len(txlog) + 1

C18_Step ==
    /\ (ChainOf(disk') # ChainOf(disk) \/ AnchoredAudit(disk') # AnchoredAudit(disk))
          => /\ SendCalled
             /\ txlog'[Len(txlog')].returned
             /\ ChainOf(disk') = Append(ChainOf(disk), ChainOf(disk')[Len(ChainOf(disk'))])
             /\ ChainOf(disk')[Len(ChainOf(disk'))].v.tx_hash = Txh(txlog'[Len(txlog')].tx_hash)
             /\ Len(AnchoredAudit(disk')) = Len(AnchoredAudit(disk)) + 1
    /\ (SendCalled /\ ~txlog'[Len(txlog')].returned)
          => /\ disk' = disk
             /\ fs'.proofs = fs.proofs
             /\ ui'.shown = "anchoring_failed"

====
